---- MODULE Spec2Model ----
(***************************************************************************)
(* A model of rs-json-parser: the Tokenizer (src/src/tokenizer/mod.rs),    *)
(* the Display rendering of Number, and the recursive-descent Parser       *)
(* (src/src/parser/mod.rs).                                                *)
(*                                                                         *)
(* A character is a one-character string and a text is a sequence of       *)
(* characters.  The cursor of Peekable<IntoIter<char>> is the number of    *)
(* characters already consumed.  A panic of the program is the control     *)
(* position "panic": the call returns no value.                            *)
(***************************************************************************)
EXTENDS Integers, Sequences, FiniteSets, TLC

(***************************************************************************)
(* Characters                                                              *)
(***************************************************************************)
QUOTE == "\""

Digit == {"0", "1", "2", "3", "4", "5", "6", "7", "8", "9"}

\* char::is_numeric: the characters of the general categories Nd, Nl and No
\* (Unicode 17.0).  A character outside ASCII is written by its code point,
\* "U+" and four to six hexadecimal digits.
NonAsciiNumeric ==
  {"U+00B2", "U+00B3", "U+00B9", "U+00BC", "U+00BD", "U+00BE", "U+0660", "U+0661",
   "U+0662", "U+0663", "U+0664", "U+0665", "U+0666", "U+0667", "U+0668", "U+0669",
   "U+06F0", "U+06F1", "U+06F2", "U+06F3", "U+06F4", "U+06F5", "U+06F6", "U+06F7",
   "U+06F8", "U+06F9", "U+07C0", "U+07C1", "U+07C2", "U+07C3", "U+07C4", "U+07C5",
   "U+07C6", "U+07C7", "U+07C8", "U+07C9", "U+0966", "U+0967", "U+0968", "U+0969",
   "U+096A", "U+096B", "U+096C", "U+096D", "U+096E", "U+096F", "U+09E6", "U+09E7",
   "U+09E8", "U+09E9", "U+09EA", "U+09EB", "U+09EC", "U+09ED", "U+09EE", "U+09EF",
   "U+09F4", "U+09F5", "U+09F6", "U+09F7", "U+09F8", "U+09F9", "U+0A66", "U+0A67",
   "U+0A68", "U+0A69", "U+0A6A", "U+0A6B", "U+0A6C", "U+0A6D", "U+0A6E", "U+0A6F",
   "U+0AE6", "U+0AE7", "U+0AE8", "U+0AE9", "U+0AEA", "U+0AEB", "U+0AEC", "U+0AED",
   "U+0AEE", "U+0AEF", "U+0B66", "U+0B67", "U+0B68", "U+0B69", "U+0B6A", "U+0B6B",
   "U+0B6C", "U+0B6D", "U+0B6E", "U+0B6F", "U+0B72", "U+0B73", "U+0B74", "U+0B75",
   "U+0B76", "U+0B77", "U+0BE6", "U+0BE7", "U+0BE8", "U+0BE9", "U+0BEA", "U+0BEB",
   "U+0BEC", "U+0BED", "U+0BEE", "U+0BEF", "U+0BF0", "U+0BF1", "U+0BF2", "U+0C66",
   "U+0C67", "U+0C68", "U+0C69", "U+0C6A", "U+0C6B", "U+0C6C", "U+0C6D", "U+0C6E",
   "U+0C6F", "U+0C78", "U+0C79", "U+0C7A", "U+0C7B", "U+0C7C", "U+0C7D", "U+0C7E",
   "U+0CE6", "U+0CE7", "U+0CE8", "U+0CE9", "U+0CEA", "U+0CEB", "U+0CEC", "U+0CED",
   "U+0CEE", "U+0CEF", "U+0D58", "U+0D59", "U+0D5A", "U+0D5B", "U+0D5C", "U+0D5D",
   "U+0D5E", "U+0D66", "U+0D67", "U+0D68", "U+0D69", "U+0D6A", "U+0D6B", "U+0D6C",
   "U+0D6D", "U+0D6E", "U+0D6F", "U+0D70", "U+0D71", "U+0D72", "U+0D73", "U+0D74",
   "U+0D75", "U+0D76", "U+0D77", "U+0D78", "U+0DE6", "U+0DE7", "U+0DE8", "U+0DE9",
   "U+0DEA", "U+0DEB", "U+0DEC", "U+0DED", "U+0DEE", "U+0DEF", "U+0E50", "U+0E51",
   "U+0E52", "U+0E53", "U+0E54", "U+0E55", "U+0E56", "U+0E57", "U+0E58", "U+0E59",
   "U+0ED0", "U+0ED1", "U+0ED2", "U+0ED3", "U+0ED4", "U+0ED5", "U+0ED6", "U+0ED7",
   "U+0ED8", "U+0ED9", "U+0F20", "U+0F21", "U+0F22", "U+0F23", "U+0F24", "U+0F25",
   "U+0F26", "U+0F27", "U+0F28", "U+0F29", "U+0F2A", "U+0F2B", "U+0F2C", "U+0F2D",
   "U+0F2E", "U+0F2F", "U+0F30", "U+0F31", "U+0F32", "U+0F33", "U+1040", "U+1041",
   "U+1042", "U+1043", "U+1044", "U+1045", "U+1046", "U+1047", "U+1048", "U+1049",
   "U+1090", "U+1091", "U+1092", "U+1093", "U+1094", "U+1095", "U+1096", "U+1097",
   "U+1098", "U+1099", "U+1369", "U+136A", "U+136B", "U+136C", "U+136D", "U+136E",
   "U+136F", "U+1370", "U+1371", "U+1372", "U+1373", "U+1374", "U+1375", "U+1376",
   "U+1377", "U+1378", "U+1379", "U+137A", "U+137B", "U+137C", "U+16EE", "U+16EF",
   "U+16F0", "U+17E0", "U+17E1", "U+17E2", "U+17E3", "U+17E4", "U+17E5", "U+17E6",
   "U+17E7", "U+17E8", "U+17E9", "U+17F0", "U+17F1", "U+17F2", "U+17F3", "U+17F4",
   "U+17F5", "U+17F6", "U+17F7", "U+17F8", "U+17F9", "U+1810", "U+1811", "U+1812",
   "U+1813", "U+1814", "U+1815", "U+1816", "U+1817", "U+1818", "U+1819", "U+1946",
   "U+1947", "U+1948", "U+1949", "U+194A", "U+194B", "U+194C", "U+194D", "U+194E",
   "U+194F", "U+19D0", "U+19D1", "U+19D2", "U+19D3", "U+19D4", "U+19D5", "U+19D6",
   "U+19D7", "U+19D8", "U+19D9", "U+19DA", "U+1A80", "U+1A81", "U+1A82", "U+1A83",
   "U+1A84", "U+1A85", "U+1A86", "U+1A87", "U+1A88", "U+1A89", "U+1A90", "U+1A91",
   "U+1A92", "U+1A93", "U+1A94", "U+1A95", "U+1A96", "U+1A97", "U+1A98", "U+1A99",
   "U+1B50", "U+1B51", "U+1B52", "U+1B53", "U+1B54", "U+1B55", "U+1B56", "U+1B57",
   "U+1B58", "U+1B59", "U+1BB0", "U+1BB1", "U+1BB2", "U+1BB3", "U+1BB4", "U+1BB5",
   "U+1BB6", "U+1BB7", "U+1BB8", "U+1BB9", "U+1C40", "U+1C41", "U+1C42", "U+1C43",
   "U+1C44", "U+1C45", "U+1C46", "U+1C47", "U+1C48", "U+1C49", "U+1C50", "U+1C51",
   "U+1C52", "U+1C53", "U+1C54", "U+1C55", "U+1C56", "U+1C57", "U+1C58", "U+1C59",
   "U+2070", "U+2074", "U+2075", "U+2076", "U+2077", "U+2078", "U+2079", "U+2080",
   "U+2081", "U+2082", "U+2083", "U+2084", "U+2085", "U+2086", "U+2087", "U+2088",
   "U+2089", "U+2150", "U+2151", "U+2152", "U+2153", "U+2154", "U+2155", "U+2156",
   "U+2157", "U+2158", "U+2159", "U+215A", "U+215B", "U+215C", "U+215D", "U+215E",
   "U+215F", "U+2160", "U+2161", "U+2162", "U+2163", "U+2164", "U+2165", "U+2166",
   "U+2167", "U+2168", "U+2169", "U+216A", "U+216B", "U+216C", "U+216D", "U+216E",
   "U+216F", "U+2170", "U+2171", "U+2172", "U+2173", "U+2174", "U+2175", "U+2176",
   "U+2177", "U+2178", "U+2179", "U+217A", "U+217B", "U+217C", "U+217D", "U+217E",
   "U+217F", "U+2180", "U+2181", "U+2182", "U+2185", "U+2186", "U+2187", "U+2188",
   "U+2189", "U+2460", "U+2461", "U+2462", "U+2463", "U+2464", "U+2465", "U+2466",
   "U+2467", "U+2468", "U+2469", "U+246A", "U+246B", "U+246C", "U+246D", "U+246E",
   "U+246F", "U+2470", "U+2471", "U+2472", "U+2473", "U+2474", "U+2475", "U+2476",
   "U+2477", "U+2478", "U+2479", "U+247A", "U+247B", "U+247C", "U+247D", "U+247E",
   "U+247F", "U+2480", "U+2481", "U+2482", "U+2483", "U+2484", "U+2485", "U+2486",
   "U+2487", "U+2488", "U+2489", "U+248A", "U+248B", "U+248C", "U+248D", "U+248E",
   "U+248F", "U+2490", "U+2491", "U+2492", "U+2493", "U+2494", "U+2495", "U+2496",
   "U+2497", "U+2498", "U+2499", "U+249A", "U+249B", "U+24EA", "U+24EB", "U+24EC",
   "U+24ED", "U+24EE", "U+24EF", "U+24F0", "U+24F1", "U+24F2", "U+24F3", "U+24F4",
   "U+24F5", "U+24F6", "U+24F7", "U+24F8", "U+24F9", "U+24FA", "U+24FB", "U+24FC",
   "U+24FD", "U+24FE", "U+24FF", "U+2776", "U+2777", "U+2778", "U+2779", "U+277A",
   "U+277B", "U+277C", "U+277D", "U+277E", "U+277F", "U+2780", "U+2781", "U+2782",
   "U+2783", "U+2784", "U+2785", "U+2786", "U+2787", "U+2788", "U+2789", "U+278A",
   "U+278B", "U+278C", "U+278D", "U+278E", "U+278F", "U+2790", "U+2791", "U+2792",
   "U+2793", "U+2CFD", "U+3007", "U+3021", "U+3022", "U+3023", "U+3024", "U+3025",
   "U+3026", "U+3027", "U+3028", "U+3029", "U+3038", "U+3039", "U+303A", "U+3192",
   "U+3193", "U+3194", "U+3195", "U+3220", "U+3221", "U+3222", "U+3223", "U+3224",
   "U+3225", "U+3226", "U+3227", "U+3228", "U+3229", "U+3248", "U+3249", "U+324A",
   "U+324B", "U+324C", "U+324D", "U+324E", "U+324F", "U+3251", "U+3252", "U+3253",
   "U+3254", "U+3255", "U+3256", "U+3257", "U+3258", "U+3259", "U+325A", "U+325B",
   "U+325C", "U+325D", "U+325E", "U+325F", "U+3280", "U+3281", "U+3282", "U+3283",
   "U+3284", "U+3285", "U+3286", "U+3287", "U+3288", "U+3289", "U+32B1", "U+32B2",
   "U+32B3", "U+32B4", "U+32B5", "U+32B6", "U+32B7", "U+32B8", "U+32B9", "U+32BA",
   "U+32BB", "U+32BC", "U+32BD", "U+32BE", "U+32BF", "U+A620", "U+A621", "U+A622",
   "U+A623", "U+A624", "U+A625", "U+A626", "U+A627", "U+A628", "U+A629", "U+A6E6",
   "U+A6E7", "U+A6E8", "U+A6E9", "U+A6EA", "U+A6EB", "U+A6EC", "U+A6ED", "U+A6EE",
   "U+A6EF", "U+A830", "U+A831", "U+A832", "U+A833", "U+A834", "U+A835", "U+A8D0",
   "U+A8D1", "U+A8D2", "U+A8D3", "U+A8D4", "U+A8D5", "U+A8D6", "U+A8D7", "U+A8D8",
   "U+A8D9", "U+A900", "U+A901", "U+A902", "U+A903", "U+A904", "U+A905", "U+A906",
   "U+A907", "U+A908", "U+A909", "U+A9D0", "U+A9D1", "U+A9D2", "U+A9D3", "U+A9D4",
   "U+A9D5", "U+A9D6", "U+A9D7", "U+A9D8", "U+A9D9", "U+A9F0", "U+A9F1", "U+A9F2",
   "U+A9F3", "U+A9F4", "U+A9F5", "U+A9F6", "U+A9F7", "U+A9F8", "U+A9F9", "U+AA50",
   "U+AA51", "U+AA52", "U+AA53", "U+AA54", "U+AA55", "U+AA56", "U+AA57", "U+AA58",
   "U+AA59", "U+ABF0", "U+ABF1", "U+ABF2", "U+ABF3", "U+ABF4", "U+ABF5", "U+ABF6",
   "U+ABF7", "U+ABF8", "U+ABF9", "U+FF10", "U+FF11", "U+FF12", "U+FF13", "U+FF14",
   "U+FF15", "U+FF16", "U+FF17", "U+FF18", "U+FF19", "U+10107", "U+10108", "U+10109",
   "U+1010A", "U+1010B", "U+1010C", "U+1010D", "U+1010E", "U+1010F", "U+10110", "U+10111",
   "U+10112", "U+10113", "U+10114", "U+10115", "U+10116", "U+10117", "U+10118", "U+10119",
   "U+1011A", "U+1011B", "U+1011C", "U+1011D", "U+1011E", "U+1011F", "U+10120", "U+10121",
   "U+10122", "U+10123", "U+10124", "U+10125", "U+10126", "U+10127", "U+10128", "U+10129",
   "U+1012A", "U+1012B", "U+1012C", "U+1012D", "U+1012E", "U+1012F", "U+10130", "U+10131",
   "U+10132", "U+10133", "U+10140", "U+10141", "U+10142", "U+10143", "U+10144", "U+10145",
   "U+10146", "U+10147", "U+10148", "U+10149", "U+1014A", "U+1014B", "U+1014C", "U+1014D",
   "U+1014E", "U+1014F", "U+10150", "U+10151", "U+10152", "U+10153", "U+10154", "U+10155",
   "U+10156", "U+10157", "U+10158", "U+10159", "U+1015A", "U+1015B", "U+1015C", "U+1015D",
   "U+1015E", "U+1015F", "U+10160", "U+10161", "U+10162", "U+10163", "U+10164", "U+10165",
   "U+10166", "U+10167", "U+10168", "U+10169", "U+1016A", "U+1016B", "U+1016C", "U+1016D",
   "U+1016E", "U+1016F", "U+10170", "U+10171", "U+10172", "U+10173", "U+10174", "U+10175",
   "U+10176", "U+10177", "U+10178", "U+1018A", "U+1018B", "U+102E1", "U+102E2", "U+102E3",
   "U+102E4", "U+102E5", "U+102E6", "U+102E7", "U+102E8", "U+102E9", "U+102EA", "U+102EB",
   "U+102EC", "U+102ED", "U+102EE", "U+102EF", "U+102F0", "U+102F1", "U+102F2", "U+102F3",
   "U+102F4", "U+102F5", "U+102F6", "U+102F7", "U+102F8", "U+102F9", "U+102FA", "U+102FB",
   "U+10320", "U+10321", "U+10322", "U+10323", "U+10341", "U+1034A", "U+103D1", "U+103D2",
   "U+103D3", "U+103D4", "U+103D5", "U+104A0", "U+104A1", "U+104A2", "U+104A3", "U+104A4",
   "U+104A5", "U+104A6", "U+104A7", "U+104A8", "U+104A9", "U+10858", "U+10859", "U+1085A",
   "U+1085B", "U+1085C", "U+1085D", "U+1085E", "U+1085F", "U+10879", "U+1087A", "U+1087B",
   "U+1087C", "U+1087D", "U+1087E", "U+1087F", "U+108A7", "U+108A8", "U+108A9", "U+108AA",
   "U+108AB", "U+108AC", "U+108AD", "U+108AE", "U+108AF", "U+108FB", "U+108FC", "U+108FD",
   "U+108FE", "U+108FF", "U+10916", "U+10917", "U+10918", "U+10919", "U+1091A", "U+1091B",
   "U+109BC", "U+109BD", "U+109C0", "U+109C1", "U+109C2", "U+109C3", "U+109C4", "U+109C5",
   "U+109C6", "U+109C7", "U+109C8", "U+109C9", "U+109CA", "U+109CB", "U+109CC", "U+109CD",
   "U+109CE", "U+109CF", "U+109D2", "U+109D3", "U+109D4", "U+109D5", "U+109D6", "U+109D7",
   "U+109D8", "U+109D9", "U+109DA", "U+109DB", "U+109DC", "U+109DD", "U+109DE", "U+109DF",
   "U+109E0", "U+109E1", "U+109E2", "U+109E3", "U+109E4", "U+109E5", "U+109E6", "U+109E7",
   "U+109E8", "U+109E9", "U+109EA", "U+109EB", "U+109EC", "U+109ED", "U+109EE", "U+109EF",
   "U+109F0", "U+109F1", "U+109F2", "U+109F3", "U+109F4", "U+109F5", "U+109F6", "U+109F7",
   "U+109F8", "U+109F9", "U+109FA", "U+109FB", "U+109FC", "U+109FD", "U+109FE", "U+109FF",
   "U+10A40", "U+10A41", "U+10A42", "U+10A43", "U+10A44", "U+10A45", "U+10A46", "U+10A47",
   "U+10A48", "U+10A7D", "U+10A7E", "U+10A9D", "U+10A9E", "U+10A9F", "U+10AEB", "U+10AEC",
   "U+10AED", "U+10AEE", "U+10AEF", "U+10B58", "U+10B59", "U+10B5A", "U+10B5B", "U+10B5C",
   "U+10B5D", "U+10B5E", "U+10B5F", "U+10B78", "U+10B79", "U+10B7A", "U+10B7B", "U+10B7C",
   "U+10B7D", "U+10B7E", "U+10B7F", "U+10BA9", "U+10BAA", "U+10BAB", "U+10BAC", "U+10BAD",
   "U+10BAE", "U+10BAF", "U+10CFA", "U+10CFB", "U+10CFC", "U+10CFD", "U+10CFE", "U+10CFF",
   "U+10D30", "U+10D31", "U+10D32", "U+10D33", "U+10D34", "U+10D35", "U+10D36", "U+10D37",
   "U+10D38", "U+10D39", "U+10D40", "U+10D41", "U+10D42", "U+10D43", "U+10D44", "U+10D45",
   "U+10D46", "U+10D47", "U+10D48", "U+10D49", "U+10E60", "U+10E61", "U+10E62", "U+10E63",
   "U+10E64", "U+10E65", "U+10E66", "U+10E67", "U+10E68", "U+10E69", "U+10E6A", "U+10E6B",
   "U+10E6C", "U+10E6D", "U+10E6E", "U+10E6F", "U+10E70", "U+10E71", "U+10E72", "U+10E73",
   "U+10E74", "U+10E75", "U+10E76", "U+10E77", "U+10E78", "U+10E79", "U+10E7A", "U+10E7B",
   "U+10E7C", "U+10E7D", "U+10E7E", "U+10F1D", "U+10F1E", "U+10F1F", "U+10F20", "U+10F21",
   "U+10F22", "U+10F23", "U+10F24", "U+10F25", "U+10F26", "U+10F51", "U+10F52", "U+10F53",
   "U+10F54", "U+10FC5", "U+10FC6", "U+10FC7", "U+10FC8", "U+10FC9", "U+10FCA", "U+10FCB",
   "U+11052", "U+11053", "U+11054", "U+11055", "U+11056", "U+11057", "U+11058", "U+11059",
   "U+1105A", "U+1105B", "U+1105C", "U+1105D", "U+1105E", "U+1105F", "U+11060", "U+11061",
   "U+11062", "U+11063", "U+11064", "U+11065", "U+11066", "U+11067", "U+11068", "U+11069",
   "U+1106A", "U+1106B", "U+1106C", "U+1106D", "U+1106E", "U+1106F", "U+110F0", "U+110F1",
   "U+110F2", "U+110F3", "U+110F4", "U+110F5", "U+110F6", "U+110F7", "U+110F8", "U+110F9",
   "U+11136", "U+11137", "U+11138", "U+11139", "U+1113A", "U+1113B", "U+1113C", "U+1113D",
   "U+1113E", "U+1113F", "U+111D0", "U+111D1", "U+111D2", "U+111D3", "U+111D4", "U+111D5",
   "U+111D6", "U+111D7", "U+111D8", "U+111D9", "U+111E1", "U+111E2", "U+111E3", "U+111E4",
   "U+111E5", "U+111E6", "U+111E7", "U+111E8", "U+111E9", "U+111EA", "U+111EB", "U+111EC",
   "U+111ED", "U+111EE", "U+111EF", "U+111F0", "U+111F1", "U+111F2", "U+111F3", "U+111F4",
   "U+112F0", "U+112F1", "U+112F2", "U+112F3", "U+112F4", "U+112F5", "U+112F6", "U+112F7",
   "U+112F8", "U+112F9", "U+11450", "U+11451", "U+11452", "U+11453", "U+11454", "U+11455",
   "U+11456", "U+11457", "U+11458", "U+11459", "U+114D0", "U+114D1", "U+114D2", "U+114D3",
   "U+114D4", "U+114D5", "U+114D6", "U+114D7", "U+114D8", "U+114D9", "U+11650", "U+11651",
   "U+11652", "U+11653", "U+11654", "U+11655", "U+11656", "U+11657", "U+11658", "U+11659",
   "U+116C0", "U+116C1", "U+116C2", "U+116C3", "U+116C4", "U+116C5", "U+116C6", "U+116C7",
   "U+116C8", "U+116C9", "U+116D0", "U+116D1", "U+116D2", "U+116D3", "U+116D4", "U+116D5",
   "U+116D6", "U+116D7", "U+116D8", "U+116D9", "U+116DA", "U+116DB", "U+116DC", "U+116DD",
   "U+116DE", "U+116DF", "U+116E0", "U+116E1", "U+116E2", "U+116E3", "U+11730", "U+11731",
   "U+11732", "U+11733", "U+11734", "U+11735", "U+11736", "U+11737", "U+11738", "U+11739",
   "U+1173A", "U+1173B", "U+118E0", "U+118E1", "U+118E2", "U+118E3", "U+118E4", "U+118E5",
   "U+118E6", "U+118E7", "U+118E8", "U+118E9", "U+118EA", "U+118EB", "U+118EC", "U+118ED",
   "U+118EE", "U+118EF", "U+118F0", "U+118F1", "U+118F2", "U+11950", "U+11951", "U+11952",
   "U+11953", "U+11954", "U+11955", "U+11956", "U+11957", "U+11958", "U+11959", "U+11BF0",
   "U+11BF1", "U+11BF2", "U+11BF3", "U+11BF4", "U+11BF5", "U+11BF6", "U+11BF7", "U+11BF8",
   "U+11BF9", "U+11C50", "U+11C51", "U+11C52", "U+11C53", "U+11C54", "U+11C55", "U+11C56",
   "U+11C57", "U+11C58", "U+11C59", "U+11C5A", "U+11C5B", "U+11C5C", "U+11C5D", "U+11C5E",
   "U+11C5F", "U+11C60", "U+11C61", "U+11C62", "U+11C63", "U+11C64", "U+11C65", "U+11C66",
   "U+11C67", "U+11C68", "U+11C69", "U+11C6A", "U+11C6B", "U+11C6C", "U+11D50", "U+11D51",
   "U+11D52", "U+11D53", "U+11D54", "U+11D55", "U+11D56", "U+11D57", "U+11D58", "U+11D59",
   "U+11DA0", "U+11DA1", "U+11DA2", "U+11DA3", "U+11DA4", "U+11DA5", "U+11DA6", "U+11DA7",
   "U+11DA8", "U+11DA9", "U+11DE0", "U+11DE1", "U+11DE2", "U+11DE3", "U+11DE4", "U+11DE5",
   "U+11DE6", "U+11DE7", "U+11DE8", "U+11DE9", "U+11F50", "U+11F51", "U+11F52", "U+11F53",
   "U+11F54", "U+11F55", "U+11F56", "U+11F57", "U+11F58", "U+11F59", "U+11FC0", "U+11FC1",
   "U+11FC2", "U+11FC3", "U+11FC4", "U+11FC5", "U+11FC6", "U+11FC7", "U+11FC8", "U+11FC9",
   "U+11FCA", "U+11FCB", "U+11FCC", "U+11FCD", "U+11FCE", "U+11FCF", "U+11FD0", "U+11FD1",
   "U+11FD2", "U+11FD3", "U+11FD4", "U+12400", "U+12401", "U+12402", "U+12403", "U+12404",
   "U+12405", "U+12406", "U+12407", "U+12408", "U+12409", "U+1240A", "U+1240B", "U+1240C",
   "U+1240D", "U+1240E", "U+1240F", "U+12410", "U+12411", "U+12412", "U+12413", "U+12414",
   "U+12415", "U+12416", "U+12417", "U+12418", "U+12419", "U+1241A", "U+1241B", "U+1241C",
   "U+1241D", "U+1241E", "U+1241F", "U+12420", "U+12421", "U+12422", "U+12423", "U+12424",
   "U+12425", "U+12426", "U+12427", "U+12428", "U+12429", "U+1242A", "U+1242B", "U+1242C",
   "U+1242D", "U+1242E", "U+1242F", "U+12430", "U+12431", "U+12432", "U+12433", "U+12434",
   "U+12435", "U+12436", "U+12437", "U+12438", "U+12439", "U+1243A", "U+1243B", "U+1243C",
   "U+1243D", "U+1243E", "U+1243F", "U+12440", "U+12441", "U+12442", "U+12443", "U+12444",
   "U+12445", "U+12446", "U+12447", "U+12448", "U+12449", "U+1244A", "U+1244B", "U+1244C",
   "U+1244D", "U+1244E", "U+1244F", "U+12450", "U+12451", "U+12452", "U+12453", "U+12454",
   "U+12455", "U+12456", "U+12457", "U+12458", "U+12459", "U+1245A", "U+1245B", "U+1245C",
   "U+1245D", "U+1245E", "U+1245F", "U+12460", "U+12461", "U+12462", "U+12463", "U+12464",
   "U+12465", "U+12466", "U+12467", "U+12468", "U+12469", "U+1246A", "U+1246B", "U+1246C",
   "U+1246D", "U+1246E", "U+16130", "U+16131", "U+16132", "U+16133", "U+16134", "U+16135",
   "U+16136", "U+16137", "U+16138", "U+16139", "U+16A60", "U+16A61", "U+16A62", "U+16A63",
   "U+16A64", "U+16A65", "U+16A66", "U+16A67", "U+16A68", "U+16A69", "U+16AC0", "U+16AC1",
   "U+16AC2", "U+16AC3", "U+16AC4", "U+16AC5", "U+16AC6", "U+16AC7", "U+16AC8", "U+16AC9",
   "U+16B50", "U+16B51", "U+16B52", "U+16B53", "U+16B54", "U+16B55", "U+16B56", "U+16B57",
   "U+16B58", "U+16B59", "U+16B5B", "U+16B5C", "U+16B5D", "U+16B5E", "U+16B5F", "U+16B60",
   "U+16B61", "U+16D70", "U+16D71", "U+16D72", "U+16D73", "U+16D74", "U+16D75", "U+16D76",
   "U+16D77", "U+16D78", "U+16D79", "U+16E80", "U+16E81", "U+16E82", "U+16E83", "U+16E84",
   "U+16E85", "U+16E86", "U+16E87", "U+16E88", "U+16E89", "U+16E8A", "U+16E8B", "U+16E8C",
   "U+16E8D", "U+16E8E", "U+16E8F", "U+16E90", "U+16E91", "U+16E92", "U+16E93", "U+16E94",
   "U+16E95", "U+16E96", "U+16FF4", "U+16FF5", "U+16FF6", "U+1CCF0", "U+1CCF1", "U+1CCF2",
   "U+1CCF3", "U+1CCF4", "U+1CCF5", "U+1CCF6", "U+1CCF7", "U+1CCF8", "U+1CCF9", "U+1D2C0",
   "U+1D2C1", "U+1D2C2", "U+1D2C3", "U+1D2C4", "U+1D2C5", "U+1D2C6", "U+1D2C7", "U+1D2C8",
   "U+1D2C9", "U+1D2CA", "U+1D2CB", "U+1D2CC", "U+1D2CD", "U+1D2CE", "U+1D2CF", "U+1D2D0",
   "U+1D2D1", "U+1D2D2", "U+1D2D3", "U+1D2E0", "U+1D2E1", "U+1D2E2", "U+1D2E3", "U+1D2E4",
   "U+1D2E5", "U+1D2E6", "U+1D2E7", "U+1D2E8", "U+1D2E9", "U+1D2EA", "U+1D2EB", "U+1D2EC",
   "U+1D2ED", "U+1D2EE", "U+1D2EF", "U+1D2F0", "U+1D2F1", "U+1D2F2", "U+1D2F3", "U+1D360",
   "U+1D361", "U+1D362", "U+1D363", "U+1D364", "U+1D365", "U+1D366", "U+1D367", "U+1D368",
   "U+1D369", "U+1D36A", "U+1D36B", "U+1D36C", "U+1D36D", "U+1D36E", "U+1D36F", "U+1D370",
   "U+1D371", "U+1D372", "U+1D373", "U+1D374", "U+1D375", "U+1D376", "U+1D377", "U+1D378",
   "U+1D7CE", "U+1D7CF", "U+1D7D0", "U+1D7D1", "U+1D7D2", "U+1D7D3", "U+1D7D4", "U+1D7D5",
   "U+1D7D6", "U+1D7D7", "U+1D7D8", "U+1D7D9", "U+1D7DA", "U+1D7DB", "U+1D7DC", "U+1D7DD",
   "U+1D7DE", "U+1D7DF", "U+1D7E0", "U+1D7E1", "U+1D7E2", "U+1D7E3", "U+1D7E4", "U+1D7E5",
   "U+1D7E6", "U+1D7E7", "U+1D7E8", "U+1D7E9", "U+1D7EA", "U+1D7EB", "U+1D7EC", "U+1D7ED",
   "U+1D7EE", "U+1D7EF", "U+1D7F0", "U+1D7F1", "U+1D7F2", "U+1D7F3", "U+1D7F4", "U+1D7F5",
   "U+1D7F6", "U+1D7F7", "U+1D7F8", "U+1D7F9", "U+1D7FA", "U+1D7FB", "U+1D7FC", "U+1D7FD",
   "U+1D7FE", "U+1D7FF", "U+1E140", "U+1E141", "U+1E142", "U+1E143", "U+1E144", "U+1E145",
   "U+1E146", "U+1E147", "U+1E148", "U+1E149", "U+1E2F0", "U+1E2F1", "U+1E2F2", "U+1E2F3",
   "U+1E2F4", "U+1E2F5", "U+1E2F6", "U+1E2F7", "U+1E2F8", "U+1E2F9", "U+1E4F0", "U+1E4F1",
   "U+1E4F2", "U+1E4F3", "U+1E4F4", "U+1E4F5", "U+1E4F6", "U+1E4F7", "U+1E4F8", "U+1E4F9",
   "U+1E5F1", "U+1E5F2", "U+1E5F3", "U+1E5F4", "U+1E5F5", "U+1E5F6", "U+1E5F7", "U+1E5F8",
   "U+1E5F9", "U+1E5FA", "U+1E8C7", "U+1E8C8", "U+1E8C9", "U+1E8CA", "U+1E8CB", "U+1E8CC",
   "U+1E8CD", "U+1E8CE", "U+1E8CF", "U+1E950", "U+1E951", "U+1E952", "U+1E953", "U+1E954",
   "U+1E955", "U+1E956", "U+1E957", "U+1E958", "U+1E959", "U+1EC71", "U+1EC72", "U+1EC73",
   "U+1EC74", "U+1EC75", "U+1EC76", "U+1EC77", "U+1EC78", "U+1EC79", "U+1EC7A", "U+1EC7B",
   "U+1EC7C", "U+1EC7D", "U+1EC7E", "U+1EC7F", "U+1EC80", "U+1EC81", "U+1EC82", "U+1EC83",
   "U+1EC84", "U+1EC85", "U+1EC86", "U+1EC87", "U+1EC88", "U+1EC89", "U+1EC8A", "U+1EC8B",
   "U+1EC8C", "U+1EC8D", "U+1EC8E", "U+1EC8F", "U+1EC90", "U+1EC91", "U+1EC92", "U+1EC93",
   "U+1EC94", "U+1EC95", "U+1EC96", "U+1EC97", "U+1EC98", "U+1EC99", "U+1EC9A", "U+1EC9B",
   "U+1EC9C", "U+1EC9D", "U+1EC9E", "U+1EC9F", "U+1ECA0", "U+1ECA1", "U+1ECA2", "U+1ECA3",
   "U+1ECA4", "U+1ECA5", "U+1ECA6", "U+1ECA7", "U+1ECA8", "U+1ECA9", "U+1ECAA", "U+1ECAB",
   "U+1ECAD", "U+1ECAE", "U+1ECAF", "U+1ECB1", "U+1ECB2", "U+1ECB3", "U+1ECB4", "U+1ED01",
   "U+1ED02", "U+1ED03", "U+1ED04", "U+1ED05", "U+1ED06", "U+1ED07", "U+1ED08", "U+1ED09",
   "U+1ED0A", "U+1ED0B", "U+1ED0C", "U+1ED0D", "U+1ED0E", "U+1ED0F", "U+1ED10", "U+1ED11",
   "U+1ED12", "U+1ED13", "U+1ED14", "U+1ED15", "U+1ED16", "U+1ED17", "U+1ED18", "U+1ED19",
   "U+1ED1A", "U+1ED1B", "U+1ED1C", "U+1ED1D", "U+1ED1E", "U+1ED1F", "U+1ED20", "U+1ED21",
   "U+1ED22", "U+1ED23", "U+1ED24", "U+1ED25", "U+1ED26", "U+1ED27", "U+1ED28", "U+1ED29",
   "U+1ED2A", "U+1ED2B", "U+1ED2C", "U+1ED2D", "U+1ED2F", "U+1ED30", "U+1ED31", "U+1ED32",
   "U+1ED33", "U+1ED34", "U+1ED35", "U+1ED36", "U+1ED37", "U+1ED38", "U+1ED39", "U+1ED3A",
   "U+1ED3B", "U+1ED3C", "U+1ED3D", "U+1F100", "U+1F101", "U+1F102", "U+1F103", "U+1F104",
   "U+1F105", "U+1F106", "U+1F107", "U+1F108", "U+1F109", "U+1F10A", "U+1F10B", "U+1F10C",
   "U+1FBF0", "U+1FBF1", "U+1FBF2", "U+1FBF3", "U+1FBF4", "U+1FBF5", "U+1FBF6", "U+1FBF7",
   "U+1FBF8", "U+1FBF9"}

IsNumeric(c) == c \in Digit \cup NonAsciiNumeric

Lower == {"a", "b", "c", "d", "e", "f", "g", "h", "i", "j", "k", "l", "m",
          "n", "o", "p", "q", "r", "s", "t", "u", "v", "w", "x", "y", "z"}

Upper == {"A", "B", "C", "D", "E", "F", "G", "H", "I", "J", "K", "L", "M",
          "N", "O", "P", "Q", "R", "S", "T", "U", "V", "W", "X", "Y", "Z"}

IsAsciiLowercase(c) == c \in Lower

\* A tokenizer that does not skip a newline: what C12 must tell from the
\* code.
WhitespaceNoNewline == {" ", "\t"}

\* The characters Tokenizer::next skips (line 226).
Whitespace == {" ", "\t", "\n"}

DigitVal(c) ==
  CASE c = "0" -> 0 [] c = "1" -> 1 [] c = "2" -> 2 [] c = "3" -> 3
    [] c = "4" -> 4 [] c = "5" -> 5 [] c = "6" -> 6 [] c = "7" -> 7
    [] c = "8" -> 8 [] c = "9" -> 9

DigitChar(d) ==
  CASE d = 0 -> "0" [] d = 1 -> "1" [] d = 2 -> "2" [] d = 3 -> "3"
    [] d = 4 -> "4" [] d = 5 -> "5" [] d = 6 -> "6" [] d = 7 -> "7"
    [] d = 8 -> "8" [] d = 9 -> "9"

\* Option<T>
None == [some |-> FALSE]
Some(x) == [some |-> TRUE, v |-> x]

RECURSIVE Pow(_, _)
Pow(b, n) == IF n = 0 THEN 1 ELSE b * Pow(b, n - 1)

(***************************************************************************)
(* i32                                                                     *)
(***************************************************************************)
I32Max == 2147483647
I32Min == -2147483647 - 1

\* A parse that stops at the limits of the 32-bit range instead of failing:
\* what C15 must tell from the code.
RECURSIVE ParseI32DigitsSaturating(_, _, _, _)
ParseI32DigitsSaturating(n, i, neg, acc) ==
  IF i > Len(n) THEN Some(acc)
  ELSE IF n[i] \notin Digit THEN None
  ELSE LET d == DigitVal(n[i]) IN
       IF neg
       THEN IF acc < (I32Min + d) \div 10 + (IF (I32Min + d) % 10 = 0 THEN 0 ELSE 1)
            THEN Some(I32Min)
            ELSE ParseI32DigitsSaturating(n, i + 1, neg, acc * 10 - d)
       ELSE IF acc > (I32Max - d) \div 10
            THEN Some(I32Max)
            ELSE ParseI32DigitsSaturating(n, i + 1, neg, acc * 10 + d)

\* The digits of str::parse::<i32> after the sign: acc is the value so far,
\* kept negative when neg, and an overflow of the 32-bit range is an error.
RECURSIVE ParseI32Digits(_, _, _, _)
ParseI32Digits(n, i, neg, acc) ==
  IF i > Len(n) THEN Some(acc)
  ELSE IF n[i] \notin Digit THEN None
  ELSE LET d == DigitVal(n[i]) IN
       IF neg
       THEN IF acc < (I32Min + d) \div 10 + (IF (I32Min + d) % 10 = 0 THEN 0 ELSE 1)
            THEN None
            ELSE ParseI32Digits(n, i + 1, neg, acc * 10 - d)
       ELSE IF acc > (I32Max - d) \div 10
            THEN None
            ELSE ParseI32Digits(n, i + 1, neg, acc * 10 + d)

\* str::parse::<i32>: an optional single sign, then at least one ASCII digit.
ParseI32(n) ==
  IF n = <<>> THEN None
  ELSE IF n[1] \in {"+", "-"}
       THEN IF Len(n) = 1 THEN None
            ELSE ParseI32Digits(n, 2, n[1] = "-", 0)
       ELSE ParseI32Digits(n, 1, FALSE, 0)
(***************************************************************************)
(* f32: an IEEE-754 single as sign, 24-bit significand m and exponent e,   *)
(* of value m * 2^e, with m = 0 or 2^23 <= m < 2^24.  Every operation      *)
(* rounds to nearest, ties to even.  Subnormals, infinities and NaN lie    *)
(* outside the literals and Numbers considered.                            *)
(***************************************************************************)
TwoP23 == 8388608
TwoP24 == 16777216

F32Zero == [neg |-> FALSE, m |-> 0, e |-> 0]

\* A significand that one rounding step carried to 2^24.
F32Carry(neg, m, e) ==
  IF m = TwoP24 THEN [neg |-> neg, m |-> TwoP23, e |-> e + 1]
  ELSE [neg |-> neg, m |-> m, e |-> e]

\* Round to nearest even: rem out of unit is what lies below the last bit of m.
F32Round(neg, m, e, rem, unit) ==
  LET up == 2 * rem > unit \/ (2 * rem = unit /\ m % 2 = 1)
  IN  F32Carry(neg, IF up THEN m + 1 ELSE m, e)

\* The binary expansion of r / den (0 <= r < den), bit by bit, below m * 2^e.
RECURSIVE F32Bits(_, _, _, _)
F32Bits(r, den, m, e) ==
  IF m >= TwoP23 THEN F32Round(FALSE, m, e, r, den)
  ELSE LET bit == IF 2 * r >= den THEN 1 ELSE 0
       IN  F32Bits(2 * r - bit * den, den, 2 * m + bit, e - 1)

RECURSIVE DropTrailingZeros(_)
DropTrailingZeros(ds) ==
  IF ds # <<>> /\ ds[Len(ds)] = "0"
  THEN DropTrailingZeros(SubSeq(ds, 1, Len(ds) - 1))
  ELSE ds

RECURSIVE DigitsValue(_, _, _)
DigitsValue(ds, i, acc) ==
  IF i > Len(ds) THEN acc ELSE DigitsValue(ds, i + 1, acc * 10 + DigitVal(ds[i]))

\* The f32 nearest to 0.ds, for ASCII digits ds with at most nine of them
\* before the trailing zeros.
F32OfFraction(ds) ==
  LET sig == DropTrailingZeros(ds)
      num == DigitsValue(sig, 1, 0)
  IN  IF num = 0 THEN F32Zero ELSE F32Bits(num, Pow(10, Len(sig)), 0, 0)

\* str::parse::<f32> of the text consume_frac accumulates: a "." followed by
\* the characters it accepted.  A lone "." and a character outside the ASCII
\* digits are errors; otherwise the result is the f32 nearest to 0.digits.
ParseF32(n) ==
  LET ds == SubSeq(n, 2, Len(n)) IN
  IF Len(n) < 2 \/ n[1] # "." THEN None
  ELSE IF \E i \in 1..Len(ds) : ds[i] \notin Digit THEN None
  ELSE Some(F32OfFraction(ds))

RECURSIVE F32NormUp(_, _, _)
F32NormUp(neg, m, e) ==
  IF m >= TwoP23 THEN [neg |-> neg, m |-> m, e |-> e]
  ELSE F32NormUp(neg, 2 * m, e - 1)

RECURSIVE F32ShiftFor(_, _)
F32ShiftFor(mag, sh) ==
  IF mag \div Pow(2, sh) < TwoP24 THEN sh ELSE F32ShiftFor(mag, sh + 1)

\* `int as f32`
I32ToF32(i) ==
  IF i = 0 THEN F32Zero
  ELSE IF i = I32Min THEN [neg |-> TRUE, m |-> TwoP23, e |-> 8]
  ELSE LET mag == IF i < 0 THEN -i ELSE i IN
       IF mag < TwoP24 THEN F32NormUp(i < 0, mag, 0)
       ELSE LET sh == F32ShiftFor(mag, 1)
                unit == Pow(2, sh)
            IN  F32Round(i < 0, mag \div unit, sh, mag % unit, unit)

\* The f32 sum of two magnitudes, a.e >= b.e, both non-zero; the result
\* carries the sign neg.  The sum is formed in quarters of a's last bit,
\* with what b holds below a quarter kept as a sticky bit.
F32AddAligned(neg, a, b) ==
  LET sh == a.e - b.e IN
  IF sh >= 27 THEN [neg |-> neg, m |-> a.m, e |-> a.e]
  ELSE LET bq == IF sh >= 2 THEN b.m \div Pow(2, sh - 2) ELSE b.m * Pow(2, 2 - sh)
           sticky == IF sh >= 2 /\ b.m % Pow(2, sh - 2) # 0 THEN 1 ELSE 0
           sum4 == a.m * 4 + bq
       IN  IF sum4 >= 4 * TwoP24
           THEN F32Round(neg, sum4 \div 8, a.e + 1, 2 * (sum4 % 8) + sticky, 16)
           ELSE F32Round(neg, sum4 \div 4, a.e, 2 * (sum4 % 4) + sticky, 8)

\* |a| + |b| in f32, with the sign neg.
F32AddMag(neg, a, b) ==
  IF b.m = 0 THEN [neg |-> neg /\ a.m # 0, m |-> a.m, e |-> a.e]
  ELSE IF a.m = 0 THEN [neg |-> neg, m |-> b.m, e |-> b.e]
  ELSE IF a.e >= b.e THEN F32AddAligned(neg, a, b)
  ELSE F32AddAligned(neg, b, a)

\* The f32 difference |a| - |b| of two non-zero magnitudes, |a| > |b|; the
\* result carries the sign neg.  With the last bits one place apart the
\* difference is formed in halves of a's last bit; further apart, in
\* quarters, with what b holds below a quarter kept as a sticky bit.
F32SubQuarters(neg, e, q, sticky) ==
  IF q >= 4 * TwoP23
  THEN F32Round(neg, q \div 4, e, 2 * (q % 4) + sticky, 8)
  ELSE F32Round(neg, q \div 2, e - 1, 2 * (q % 2) + sticky, 4)

F32SubMag(neg, a, b) ==
  LET sh == a.e - b.e IN
  IF sh >= 27 THEN [neg |-> neg, m |-> a.m, e |-> a.e]
  ELSE IF sh = 0 THEN F32NormUp(neg, a.m - b.m, a.e)
  ELSE IF sh = 1
       THEN IF 2 * a.m - b.m < TwoP24 THEN F32NormUp(neg, 2 * a.m - b.m, a.e - 1)
            ELSE F32Round(neg, (2 * a.m - b.m) \div 2, a.e, (2 * a.m - b.m) % 2, 2)
  ELSE IF b.m % Pow(2, sh - 2) # 0
       THEN F32SubQuarters(neg, a.e, 4 * a.m - b.m \div Pow(2, sh - 2) - 1, 1)
  ELSE F32SubQuarters(neg, a.e, 4 * a.m - b.m \div Pow(2, sh - 2), 0)

\* a + b in f32.
F32Add(a, b) ==
  IF a.m = 0 /\ b.m = 0 THEN [neg |-> a.neg /\ b.neg, m |-> 0, e |-> 0]
  ELSE IF a.m = 0 THEN b
  ELSE IF b.m = 0 THEN a
  ELSE IF a.neg = b.neg THEN F32AddMag(a.neg, a, b)
  ELSE IF a.e = b.e /\ a.m = b.m THEN F32Zero
  ELSE IF a.e > b.e \/ (a.e = b.e /\ a.m > b.m) THEN F32SubMag(a.neg, a, b)
  ELSE F32SubMag(b.neg, b, a)

(***************************************************************************)
(* Display of i32 and of f32                                               *)
(***************************************************************************)
RECURSIVE NatDigits(_)
NatDigits(n) ==
  IF n < 10 THEN <<DigitChar(n)>> ELSE NatDigits(n \div 10) \o <<DigitChar(n % 10)>>

\* "{}" of an i32
I32Display(i) ==
  IF i = I32Min THEN <<"-">> \o NatDigits(214748364) \o <<"8">>
  ELSE IF i < 0 THEN <<"-">> \o NatDigits(-i)
  ELSE NatDigits(i)

\* "{:+}" of an i32
I32DisplaySigned(i) == IF i >= 0 THEN <<"+">> \o NatDigits(i) ELSE I32Display(i)

\* Decimal numbers as sequences of digits 0..9, the first the most
\* significant.
RECURSIVE DecOfNat(_)
DecOfNat(n) == IF n < 10 THEN <<n>> ELSE Append(DecOfNat(n \div 10), n % 10)

\* ds * c for a factor c of at most 5^8, from the last digit to the first:
\* acc holds the digits of the product found so far, carry what they
\* carry into the next place.
RECURSIVE DecMulSmall(_, _, _, _)
DecMulSmall(ds, c, carry, acc) ==
  IF Len(acc) = Len(ds) THEN (IF carry = 0 THEN acc ELSE DecOfNat(carry) \o acc)
  ELSE DecMulSmall(ds, c, (ds[Len(ds) - Len(acc)] * c + carry) \div 10,
                   <<(ds[Len(ds) - Len(acc)] * c + carry) % 10>> \o acc)

\* ds * c^n for c = 2 or 5, eight factors at a time.
RECURSIVE DecTimes(_, _, _)
DecTimes(ds, c, n) ==
  IF n = 0 THEN ds
  ELSE IF n >= 8 THEN DecMulSmall(DecTimes(ds, c, n - 8), Pow(c, 8), 0, <<>>)
  ELSE DecMulSmall(ds, Pow(c, n), 0, <<>>)

\* The digits of n * 2^q: those of an integer when q >= 0, and for q < 0
\* those of n * 5^(-q), of which the last -q are the fraction.
DecScaled(n, q) ==
  IF q >= 0 THEN DecTimes(DecOfNat(n), 2, q) ELSE DecTimes(DecOfNat(n), 5, -q)

\* ds with zeros in front, len digits in all.
DecPad(ds, len) ==
  [i \in 1..len |-> IF i <= len - Len(ds) THEN 0 ELSE ds[i - (len - Len(ds))]]

\* a < b, for two numbers of as many digits.
DecLess(a, b) ==
  \E i \in 1..Len(a) : a[i] < b[i] /\ \A j \in 1..(i - 1) : a[j] = b[j]

\* ds plus one unit of its k-th digit.
RECURSIVE DecAddUnit(_, _)
DecAddUnit(ds, k) ==
  IF k = 0 THEN ds
  ELSE IF ds[k] = 9 THEN DecAddUnit([ds EXCEPT ![k] = 0], k - 1)
  ELSE [ds EXCEPT ![k] = ds[k] + 1]

\* The place of the first digit of ds that is not zero.
DecFirst(ds) == CHOOSE i \in 1..Len(ds) : ds[i] # 0 /\ \A j \in 1..(i - 1) : ds[j] = 0

\* The text of ds # 0, of which the last d digits are the fraction: no zero
\* in front of the integer part but a lone one, none at the end of the
\* fraction, and no point before an empty fraction.
DecText(ds, d) ==
  LET from == IF DecFirst(ds) < Len(ds) - d THEN DecFirst(ds) ELSE Len(ds) - d
      frac == DropTrailingZeros([i \in 1..d |-> DigitChar(ds[Len(ds) - d + i])])
  IN  [i \in 1..(Len(ds) - d - from + 1) |-> DigitChar(ds[from + i - 1])]
        \o (IF frac = <<>> THEN <<>> ELSE <<".">> \o frac)

\* The shortest decimal that reads back as the f32 V, whose neighbours lie
\* twice as far as LO and HI (the ends themselves read back as V when incl,
\* that is when the significand is even): the digits of V are taken one by
\* one until V cut after k digits (T) is above LO, or T plus one unit of the
\* k-th digit (U) is below HI; U is taken when T is out, or when both are in
\* and U is at least as near.
RECURSIVE F32Shortest(_, _, _, _, _)
F32Shortest(V, LO, HI, incl, k) ==
  LET T == [i \in 1..Len(V) |-> IF i <= k THEN V[i] ELSE 0]
      U == DecAddUnit(T, k)
      down == IF incl THEN ~DecLess(T, LO) ELSE DecLess(LO, T)
      up == IF incl THEN ~DecLess(HI, U) ELSE DecLess(U, HI)
  IN  IF ~(down \/ up) THEN F32Shortest(V, LO, HI, incl, k + 1)
      ELSE IF up /\ (~down \/ (k < Len(V) /\ V[k + 1] >= 5)) THEN U
      ELSE T

\* "{}" of an f32: the shortest decimal that reads back as the same f32,
\* written without an exponent.  In quarters of the last bit of m * 2^e the
\* value is 4m, half way to the next f32 is 4m + 2, and half way to the one
\* before is 4m - 2, or 4m - 1 below a power of two.  The three are padded
\* to one length with a zero in front, and the digits are taken from the
\* place before V's first one, where V rounds up to a power of ten.
F32Display(v) ==
  LET V == DecScaled(4 * v.m, v.e - 2)
      LO == DecScaled(4 * v.m - (IF v.m = TwoP23 THEN 1 ELSE 2), v.e - 2)
      HI == DecScaled(4 * v.m + 2, v.e - 2)
      d == IF v.e < 2 THEN 2 - v.e ELSE 0
      len == (IF Len(HI) > d THEN Len(HI) ELSE d) + 1
  IN  IF v.m = 0 THEN (IF v.neg THEN <<"-", "0">> ELSE <<"0">>)
      ELSE (IF v.neg THEN <<"-">> ELSE <<>>)
             \o DecText(F32Shortest(DecPad(V, len), DecPad(LO, len), DecPad(HI, len),
                                    v.m % 2 = 0, DecFirst(V) + (len - Len(V)) - 1), d)

(***************************************************************************)
(* Tokens (enum JToken) and Number                                         *)
(***************************************************************************)
LeftBrace == [t |-> "LeftBrace"]
RightBrace == [t |-> "RightBrace"]
LeftBracket == [t |-> "LeftBracket"]
RightBracket == [t |-> "RightBracket"]
Collon == [t |-> "Collon"]
Comma == [t |-> "Comma"]
JTokenNull == [t |-> "Null"]
JTokenBool(b) == [t |-> "Bool", b |-> b]
JTokenNumber(n) == [t |-> "Number", n |-> n]
JTokenString(s) == [t |-> "String", s |-> s]

\* Number::new; int is an i32, frac an Option<f32>, exponent an Option<i32>.
NumberNew(int, frac, exponent) == [int |-> int, frac |-> frac, exponent |-> exponent]

\* The outcome of a scanning step: the cursor after it and the value it
\* returns, or the panic that ends it.
Ok(pos, val) == [ok |-> TRUE, pos |-> pos, val |-> val]
Panic(pos, msg) == [ok |-> FALSE, pos |-> pos, msg |-> msg]

\* self.input.peek(): the character at the cursor, None at the end.
PeekChar(input, pos) == IF pos < Len(input) THEN Some(input[pos + 1]) ELSE None

(***************************************************************************)
(* Tokenizer                                                               *)
(***************************************************************************)
\* A loop that takes the character after a backslash as part of the string:
\* what C11 must tell from the code.
RECURSIVE ConsumeStringLoopEscapes(_, _, _)
ConsumeStringLoopEscapes(input, pos, s) ==
  LET c == PeekChar(input, pos) IN
  IF ~c.some THEN Panic(pos, "unclosed string.")
  ELSE IF c.v = QUOTE THEN Ok(pos + 1, JTokenString(s))
  ELSE IF c.v = "\\" /\ pos + 1 < Len(input)
       THEN ConsumeStringLoopEscapes(input, pos + 2, s \o <<c.v, input[pos + 2]>>)
  ELSE ConsumeStringLoopEscapes(input, pos + 1, Append(s, c.v))

\* consume_string, lines 88-95: the characters up to the next quote.
RECURSIVE ConsumeStringLoop(_, _, _)
ConsumeStringLoop(input, pos, s) ==
  LET c == PeekChar(input, pos) IN
  IF ~c.some THEN Panic(pos, "unclosed string.")
  ELSE IF c.v = QUOTE THEN Ok(pos + 1, JTokenString(s))
  ELSE ConsumeStringLoop(input, pos + 1, Append(s, c.v))

consume_string(input, pos) ==
  IF PeekChar(input, pos) # Some(QUOTE)
  THEN Panic(IF pos < Len(input) THEN pos + 1 ELSE pos, "assertion failed")
  ELSE ConsumeStringLoop(input, pos + 1, <<>>)

\* A loop that takes a sign wherever it stands: what C14 must tell from the
\* code.
RECURSIVE ConsumeSignedLoopAnySign(_, _, _)
ConsumeSignedLoopAnySign(input, pos, n) ==
  LET c == PeekChar(input, pos) IN
  IF c.some /\ (c.v \in {"-", "+"} \/ IsNumeric(c.v))
  THEN ConsumeSignedLoopAnySign(input, pos + 1, Append(n, c.v))
  ELSE Ok(pos, n)

\* The loop shared by consume_int and consume_exponent: a sign is taken only
\* while n is empty, and is a panic otherwise; numeric characters are taken;
\* anything else ends the loop.  The value is the cursor and the text n.
RECURSIVE ConsumeSignedLoop(_, _, _)
ConsumeSignedLoop(input, pos, n) ==
  LET c == PeekChar(input, pos) IN
  IF c.some /\ c.v \in {"-", "+"}
  THEN IF n = <<>> THEN ConsumeSignedLoop(input, pos + 1, Append(n, c.v))
       ELSE Panic(pos, "invalid sign position.")
  ELSE IF c.some /\ IsNumeric(c.v)
       THEN ConsumeSignedLoop(input, pos + 1, Append(n, c.v))
  ELSE Ok(pos, n)

consume_int(input, pos) ==
  LET r == ConsumeSignedLoop(input, pos, <<>>) IN
  IF ~r.ok THEN r
  ELSE LET p == ParseI32(r.val) IN Ok(r.pos, IF p.some THEN p.v ELSE 0)

RECURSIVE ConsumeFracLoop(_, _, _)
ConsumeFracLoop(input, pos, n) ==
  LET c == PeekChar(input, pos) IN
  IF c.some /\ IsNumeric(c.v) THEN ConsumeFracLoop(input, pos + 1, Append(n, c.v))
  ELSE Ok(pos, n)

consume_frac(input, pos) ==
  IF PeekChar(input, pos) # Some(".") THEN Ok(pos, None)
  ELSE LET r == ConsumeFracLoop(input, pos + 1, <<".">>)
       IN  Ok(r.pos, ParseF32(r.val))

\* An exponent whose text must parse (unwrap for ok): what C13 must tell
\* from the code.
ConsumeExponentUnwrap(input, pos) ==
  LET c == PeekChar(input, pos) IN
  IF ~(c.some /\ c.v \in {"e", "E"}) THEN Ok(pos, None)
  ELSE LET r == ConsumeSignedLoop(input, pos + 1, <<>>) IN
       IF ~r.ok THEN r
       ELSE IF ~ParseI32(r.val).some THEN Panic(r.pos, "unwrap on Err")
       ELSE Ok(r.pos, ParseI32(r.val))

\* consume_exponent: None without an e or E, else the text parsed, None when
\* it does not parse.
consume_exponent(input, pos) ==
  LET c == PeekChar(input, pos) IN
  IF ~(c.some /\ c.v \in {"e", "E"}) THEN Ok(pos, None)
  ELSE LET r == ConsumeSignedLoop(input, pos + 1, <<>>) IN
       IF ~r.ok THEN r ELSE Ok(r.pos, ParseI32(r.val))

\* consume_number with the exponent dropped from the token: what C8 must
\* tell from the code.
ConsumeNumberTokenNoExponent(int, frac, exponent) ==
  IF ~exponent.ok THEN exponent
  ELSE Ok(exponent.pos, JTokenNumber(NumberNew(int.val, frac.val, None)))

\* consume_number, line 189: the token of the three parts.
ConsumeNumberToken(int, frac, exponent) ==
  IF ~exponent.ok THEN exponent
  ELSE Ok(exponent.pos, JTokenNumber(NumberNew(int.val, frac.val, exponent.val)))

\* consume_number, line 187: the exponent, after the fraction.
ConsumeNumberExponent(input, int, frac) ==
  ConsumeNumberToken(int, frac, consume_exponent(input, frac.pos))

\* consume_number, line 186: the fraction, after the integer part.
ConsumeNumberFrac(input, int) ==
  IF ~int.ok THEN int ELSE ConsumeNumberExponent(input, int, consume_frac(input, int.pos))

consume_number(input, pos) == ConsumeNumberFrac(input, consume_int(input, pos))

RECURSIVE ConsumeKeywordLoop(_, _, _)
ConsumeKeywordLoop(input, pos, s) ==
  LET c == PeekChar(input, pos) IN
  IF c.some /\ IsAsciiLowercase(c.v) THEN ConsumeKeywordLoop(input, pos + 1, Append(s, c.v))
  ELSE Ok(pos, s)

\* A keyword scan that returns Null for any other text, the empty text of
\* an uppercase letter included: what C16 must tell from the code.
ConsumeKeywordAny(input, pos) ==
  LET r == ConsumeKeywordLoop(input, pos, <<>>) IN
  IF r.val = <<"t", "r", "u", "e">> THEN Ok(r.pos, JTokenBool(TRUE))
  ELSE IF r.val = <<"f", "a", "l", "s", "e">> THEN Ok(r.pos, JTokenBool(FALSE))
  ELSE Ok(r.pos, JTokenNull)

consume_keyword(input, pos) ==
  LET r == ConsumeKeywordLoop(input, pos, <<>>) IN
  IF r.val = <<"n", "u", "l", "l">> THEN Ok(r.pos, JTokenNull)
  ELSE IF r.val = <<"t", "r", "u", "e">> THEN Ok(r.pos, JTokenBool(TRUE))
  ELSE IF r.val = <<"f", "a", "l", "s", "e">> THEN Ok(r.pos, JTokenBool(FALSE))
  ELSE Panic(r.pos, "invalid keyword")

\* The Some(...) that next wraps a consumed token in (lines 253, 259, 263).
SomeToken(r) == IF r.ok THEN Ok(r.pos, Some(r.val)) ELSE r

\* Iterator::next of Tokenizer: Some(token), None at the end of the input,
\* or a panic.
RECURSIVE TokenizerNext(_, _)
TokenizerNext(input, pos) ==
  LET c == PeekChar(input, pos) IN
  IF ~c.some THEN Ok(pos, None)
  ELSE IF c.v \in Whitespace THEN TokenizerNext(input, pos + 1)
  ELSE IF c.v = "{" THEN Ok(pos + 1, Some(LeftBrace))
  ELSE IF c.v = "}" THEN Ok(pos + 1, Some(RightBrace))
  ELSE IF c.v = "[" THEN Ok(pos + 1, Some(LeftBracket))
  ELSE IF c.v = "]" THEN Ok(pos + 1, Some(RightBracket))
  ELSE IF c.v = ":" THEN Ok(pos + 1, Some(Collon))
  ELSE IF c.v = "," THEN Ok(pos + 1, Some(Comma))
  ELSE IF c.v = QUOTE THEN SomeToken(consume_string(input, pos))
  ELSE IF c.v \in Digit \cup {"-", "+", "."} THEN SomeToken(consume_number(input, pos))
  ELSE IF c.v \in Lower \cup Upper THEN SomeToken(consume_keyword(input, pos))
  ELSE Panic(pos, "cannot parse input")

\* Tokenizer::new(input) called to the end of the input or to a panic: the
\* tokens returned, and how the calls end.
RECURSIVE Tokenize(_, _, _)
TokenizeOn(input, r, acc) ==
  IF ~r.ok THEN [tokens |-> acc, end |-> "panic"]
  ELSE IF ~r.val.some THEN [tokens |-> acc, end |-> "eof"]
  ELSE Tokenize(input, r.pos, Append(acc, r.val.v))

Tokenize(input, at, acc) == TokenizeOn(input, TokenizerNext(input, at), acc)

(***************************************************************************)
(* impl Display for Number.                                                *)
(***************************************************************************)
\* Lines 46-50 and 54-58: int + fr, and int - fr for a negative int.
NumberCombined(n) ==
  IF n.int >= 0 THEN F32Add(I32ToF32(n.int), n.frac.v)
  ELSE F32Add(I32ToF32(n.int), [n.frac.v EXCEPT !.neg = ~n.frac.v.neg])

NumberDisplay(n) ==
  IF n.frac.some /\ n.exponent.some
  THEN F32Display(NumberCombined(n)) \o <<"E">> \o I32DisplaySigned(n.exponent.v)
  ELSE IF n.frac.some THEN F32Display(NumberCombined(n))
  ELSE IF n.exponent.some
       THEN I32Display(n.int) \o <<"E">> \o I32DisplaySigned(n.exponent.v)
  ELSE I32Display(n.int)

(***************************************************************************)
(* Values (enum JValue).  An Object holds an IndexMap: a sequence of       *)
(* entries [k, v] with distinct keys, in insertion order.                  *)
(***************************************************************************)
JValueNull == [t |-> "Null"]
JValueBool(b) == [t |-> "Bool", b |-> b]
JValueString(s) == [t |-> "String", s |-> s]
JValueNumber(n) == [t |-> "Number", n |-> n]
JValueArray(arr) == [t |-> "Array", arr |-> arr]
JValueObject(m) == [t |-> "Object", m |-> m]

\* An insert that leaves the value of a key already present: what C4 must
\* tell from the code.
IndexMapInsertKeepFirst(m, k, v) ==
  IF \E i \in 1..Len(m) : m[i].k = k THEN m ELSE Append(m, [k |-> k, v |-> v])

\* An insert that puts a new key at the front: what C5 must tell from the
\* code.
IndexMapInsertFront(m, k, v) ==
  IF \E i \in 1..Len(m) : m[i].k = k
  THEN [i \in 1..Len(m) |-> IF m[i].k = k THEN [k |-> k, v |-> v] ELSE m[i]]
  ELSE <<[k |-> k, v |-> v]>> \o m

\* IndexMap::insert: a key already present keeps its place and takes the new
\* value; a new key goes to the end.
IndexMapInsert(m, k, v) ==
  IF \E i \in 1..Len(m) : m[i].k = k
  THEN [i \in 1..Len(m) |-> IF m[i].k = k THEN [k |-> k, v |-> v] ELSE m[i]]
  ELSE Append(m, [k |-> k, v |-> v])

(***************************************************************************)
(* Parser.  The state of one parse call is a record p:                     *)
(*   pos       the cursor of the Tokenizer                                 *)
(*   peeked    the slot of Peekable<Tokenizer>: None, or Some(item) where  *)
(*             item is the Option<JToken> the tokenizer returned           *)
(*   stack     the frames of the parse_object / parse_array calls in       *)
(*             progress, the innermost last: fn, the map m or the vector   *)
(*             arr built so far, and the key awaiting its value            *)
(*   value     the value the last match or the last returned call produced *)
(*   pc        the position in the code                                    *)
(*   msg       the panic message                                           *)
(*   consumed  the tokens self.t.next() has returned so far (history)      *)
(***************************************************************************)
Fatal(p, msg) == [p EXCEPT !.pc = "panic", !.msg = msg]

\* Peekable::peek with an empty slot: the item r of the tokenizer fills it.
PeekFill(p, r) ==
  IF r.ok
  THEN [ok |-> TRUE, p |-> [p EXCEPT !.pos = r.pos, !.peeked = Some(r.val)],
        val |-> r.val]
  ELSE [ok |-> FALSE, p |-> Fatal([p EXCEPT !.pos = r.pos], r.msg), val |-> None]

\* self.t.peek()
TPeek(input, p) ==
  IF p.peeked.some THEN [ok |-> TRUE, p |-> p, val |-> p.peeked.v]
  ELSE PeekFill(p, TokenizerNext(input, p.pos))

\* Peekable::next with an empty slot: the item r of the tokenizer is returned.
NextTake(p, r) ==
  IF r.ok
  THEN [ok |-> TRUE,
        p |-> [p EXCEPT !.pos = r.pos,
                        !.consumed = IF r.val.some THEN Append(@, r.val.v) ELSE @],
        val |-> r.val]
  ELSE [ok |-> FALSE, p |-> Fatal([p EXCEPT !.pos = r.pos], r.msg), val |-> None]

\* self.t.next()
TNext(input, p) ==
  IF p.peeked.some
  THEN [ok |-> TRUE,
        p |-> [p EXCEPT !.peeked = None,
                        !.consumed = IF p.peeked.v.some THEN Append(@, p.peeked.v.v) ELSE @],
        val |-> p.peeked.v]
  ELSE NextTake(p, TokenizerNext(input, p.pos))

ObjectFrame == [fn |-> "parse_object", m |-> <<>>, arr |-> <<>>, key |-> <<>>]
ArrayFrame == [fn |-> "parse_array", m |-> <<>>, arr |-> <<>>, key |-> <<>>]

Top(stack) == stack[Len(stack)]
Pop(stack) == SubSeq(stack, 1, Len(stack) - 1)

\* The match of parse (lines 33-37) on the peeked token.
ParseMatch(token) ==
  IF token = Some(LeftBrace) THEN "parse_object"
  ELSE IF token = Some(LeftBracket) THEN "parse_array"
  ELSE "panic"

\* A parse that returns on a first token other than a brace or a bracket:
\* what C3 must tell from the code.
ParsePeekedLenient(k, to) ==
  IF ~k.ok THEN k.p
  ELSE IF to = "panic" THEN [k.p EXCEPT !.pc = "done"]
  ELSE [k.p EXCEPT !.pc = to]

\* parse, lines 33-37, on the result k of the peek.
ParsePeeked(k, to) ==
  IF ~k.ok THEN k.p
  ELSE IF to = "panic" THEN Fatal(k.p, "")
  ELSE [k.p EXCEPT !.pc = to]

\* parse, lines 32-37, on the result k of the peek.
ParseOn(k) == ParsePeeked(k, ParseMatch(k.val))

\* parse, up to the call it makes.
ParseStep(input, p) == ParseOn(TPeek(input, p))

\* A call returns v: to the caller's store step, or out of parse.
Return(p, v) ==
  LET rest == Pop(p.stack) IN
  [p EXCEPT !.stack = rest, !.value = v,
            !.pc = IF rest = <<>> THEN "done"
                   ELSE IF Top(rest).fn = "parse_object" THEN "object_store"
                   ELSE "array_store"]

\* The match on the token that starts a value (lines 60-80 and 114-134):
\* a scalar is a value at once, a brace or a bracket is a call, anything
\* else a panic.
ValueMatch(token) ==
  IF token.t = "Null" THEN [to |-> "scalar", value |-> JValueNull]
  ELSE IF token.t = "Bool" THEN [to |-> "scalar", value |-> JValueBool(token.b)]
  ELSE IF token.t = "String" THEN [to |-> "scalar", value |-> JValueString(token.s)]
  ELSE IF token.t = "Number" THEN [to |-> "scalar", value |-> JValueNumber(token.n)]
  ELSE IF token.t = "LeftBrace" THEN [to |-> "parse_object", value |-> JValueNull]
  ELSE IF token.t = "LeftBracket" THEN [to |-> "parse_array", value |-> JValueNull]
  ELSE [to |-> "panic", value |-> JValueNull]

\* The value of a container position whose next token is token: a scalar is
\* consumed and goes to the store step at `store`; a container is a call.
ValueMatched(input, p, vm, store) ==
  IF vm.to = "panic" THEN Fatal(p, "invalid json.")
  ELSE IF vm.to = "scalar"
       THEN [TNext(input, p).p EXCEPT !.value = vm.value, !.pc = store]
  ELSE [p EXCEPT !.pc = vm.to]

ValueStep(input, p, token, store) == ValueMatched(input, p, ValueMatch(token), store)

\* parse_object, lines 43-46: the opening brace and the empty map.
ParseObjectEntered(n) ==
  IF ~n.ok THEN n.p
  ELSE IF n.val # Some(LeftBrace) THEN Fatal(n.p, "assertion failed")
  ELSE [n.p EXCEPT !.stack = Append(@, ObjectFrame), !.pc = "object_loop"]

ParseObjectEnterStep(input, p) == ParseObjectEntered(TNext(input, p))

\* The assert on the key alone: what C6 must tell from the code.
KeyOnlyOk(key, collon) == key.t = "String"

\* The asserts of lines 56-57 on the two tokens taken as key and colon.
KeyCollonOk(key, collon) == key.t = "String" /\ collon.t = "Collon"

\* parse_object, lines 55-57: the colon taken after the key, and the asserts.
ParseObjectCollon(key, collon) ==
  IF ~collon.ok THEN collon.p
  ELSE IF ~collon.val.some THEN Fatal(collon.p, "unwrap on None")
  ELSE IF ~KeyCollonOk(key.val.v, collon.val.v) THEN Fatal(collon.p, "assertion failed")
  ELSE [collon.p EXCEPT !.stack[Len(collon.p.stack)].key = key.val.v.s,
                        !.pc = "object_value"]

\* parse_object, lines 54-55: the key taken, then the colon.
ParseObjectKey(input, key) ==
  IF ~key.val.some THEN Fatal(key.p, "unwrap on None")
  ELSE ParseObjectCollon(key, TNext(input, key.p))

\* A loop that peeks at the token after the closing brace before it
\* returns: what C17 must tell from the code.
ParseObjectLoopPeekedAhead(input, k) ==
  IF ~k.ok THEN k.p
  ELSE IF k.val = Some(RightBrace)
       THEN Return(TPeek(input, TNext(input, k.p).p).p, JValueObject(Top(k.p.stack).m))
  ELSE ParseObjectKey(input, TNext(input, k.p))

\* parse_object, lines 48-54, on the result k of the peek.
ParseObjectLoopPeeked(input, k) ==
  IF ~k.ok THEN k.p
  ELSE IF k.val = Some(RightBrace)
       THEN Return(TNext(input, k.p).p, JValueObject(Top(k.p.stack).m))
  ELSE ParseObjectKey(input, TNext(input, k.p))

\* parse_object, lines 48-57: the closing brace, or a key and a colon.
ParseObjectLoopStep(input, p) == ParseObjectLoopPeeked(input, TPeek(input, p))

\* parse_object, lines 59-80: the member's value.
ParseObjectValuePeeked(input, k) ==
  IF ~k.ok THEN k.p
  ELSE IF ~k.val.some THEN Fatal(k.p, "unwrap on None")
  ELSE ValueStep(input, k.p, k.val.v, "object_store")

ParseObjectValueStep(input, p) == ParseObjectValuePeeked(input, TPeek(input, p))

\* A test that lets any token pass: what C7 must tell from the code.
SeparatorAny(next, closer) == next.some

\* The test of lines 90 and 139 on the token after a member or an element.
SeparatorOk(next, closer) == next = Some(Comma) \/ next = Some(closer)

\* parse_object, lines 82-95: the insertion, then a comma or the closing brace.
\* Lines 89-95 and 138-144, on the result k of the peek: a comma is consumed,
\* the closer is left to the head of the loop, anything else is a panic.
SeparatorStep(input, k, closer, loop, msg) ==
  IF ~k.ok THEN k.p
  ELSE IF ~SeparatorOk(k.val, closer) THEN Fatal(k.p, msg)
  ELSE IF k.val = Some(Comma) THEN [TNext(input, k.p).p EXCEPT !.pc = loop]
  ELSE [k.p EXCEPT !.pc = loop]

\* parse_object, lines 82-87: m.insert(key, value).
ParseObjectInsert(p, top) ==
  [p EXCEPT !.stack[Len(p.stack)].m = IndexMapInsert(top.m, top.key, p.value)]

ParseObjectStoreStep(input, p) ==
  SeparatorStep(input, TPeek(input, ParseObjectInsert(p, Top(p.stack))),
                RightBrace, "object_loop", "invalid object")

\* parse_array, lines 101-104: the empty vector and the opening bracket.
ParseArrayEntered(n) ==
  IF ~n.ok THEN n.p
  ELSE IF n.val # Some(LeftBracket) THEN Fatal(n.p, "assertion failed")
  ELSE [n.p EXCEPT !.stack = Append(@, ArrayFrame), !.pc = "array_loop"]

ParseArrayEnterStep(input, p) == ParseArrayEntered(TNext(input, p))

\* parse_array, lines 107-134: the closing bracket, or an element.
ParseArrayLoopPeeked(input, k) ==
  IF ~k.ok THEN k.p
  ELSE IF k.val = Some(RightBracket)
       THEN Return(TNext(input, k.p).p, JValueArray(Top(k.p.stack).arr))
  ELSE IF ~k.val.some THEN Fatal(k.p, "unwrap on None")
  ELSE ValueStep(input, k.p, k.val.v, "array_store")

ParseArrayLoopStep(input, p) == ParseArrayLoopPeeked(input, TPeek(input, p))

\* parse_array, lines 136-144: the push, then a comma or the closing bracket.
\* A push at the front of the vector: what C1 must tell from the code.
ParseArrayPushFront(p) == [p EXCEPT !.stack[Len(p.stack)].arr = <<p.value>> \o @]

\* parse_array, line 136: arr.push(value).
ParseArrayPush(p) == [p EXCEPT !.stack[Len(p.stack)].arr = Append(@, p.value)]

ParseArrayStoreStep(input, p) ==
  SeparatorStep(input, TPeek(input, ParseArrayPush(p)),
                RightBracket, "array_loop", "invalid array.")

\* Parser::new
ParserNew == [pos |-> 0, peeked |-> None, stack |-> <<>>, value |-> JValueNull,
              pc |-> "parse", msg |-> "", consumed |-> <<>>]

\* One step of a parse call in progress.
ParserStep(input, p) ==
  CASE p.pc = "parse" -> ParseStep(input, p)
    [] p.pc = "parse_object" -> ParseObjectEnterStep(input, p)
    [] p.pc = "object_loop" -> ParseObjectLoopStep(input, p)
    [] p.pc = "object_value" -> ParseObjectValueStep(input, p)
    [] p.pc = "object_store" -> ParseObjectStoreStep(input, p)
    [] p.pc = "parse_array" -> ParseArrayEnterStep(input, p)
    [] p.pc = "array_loop" -> ParseArrayLoopStep(input, p)
    [] p.pc = "array_store" -> ParseArrayStoreStep(input, p)

\* Parser::new(input).parse(), run to its end: the final state.
RECURSIVE ParserRun(_, _)
ParserRun(input, p) ==
  IF p.pc \in {"done", "panic"} THEN p ELSE ParserRun(input, ParserStep(input, p))

\* What parse returns: Some(tree), or None when it panics.
Parse(input) ==
  LET p == ParserRun(input, ParserNew)
  IN  IF p.pc = "done" THEN Some(p.value) ELSE None

(***************************************************************************)
(* Inputs.  A parse call is given the text of a JSON document, or a        *)
(* sequence of lexemes that starts a container, or a blank text.  A        *)
(* document is a tree like a JValue, except that an object lists its       *)
(* members [k, v] as written (a key may repeat) and a number is the        *)
(* literal as written.                                                     *)
(***************************************************************************)
MaxNodes == 4
MaxLexemes == 4

\* A number literal [sign]int[.frac][(e|E)[sign]digits], in its parts.
Literal(sign, int, frac, exp) == [sign |-> sign, int |-> int, frac |-> frac, exp |-> exp]
Exp(e, sign, digits) == [e |-> e, sign |-> sign, digits |-> digits]

LiteralText(l) ==
  l.sign \o l.int
    \o (IF l.frac.some THEN <<".">> \o l.frac.v ELSE <<>>)
    \o (IF l.exp.some THEN <<l.exp.v.e>> \o l.exp.v.sign \o l.exp.v.digits ELSE <<>>)

DocNull == [t |-> "Null"]
DocBool(b) == [t |-> "Bool", b |-> b]
DocString(s) == [t |-> "String", s |-> s]
DocNumber(l) == [t |-> "Number", lit |-> l]
DocArray(elems) == [t |-> "Array", elems |-> elems]
DocObject(members) == [t |-> "Object", members |-> members]

DocKeys == {<<"a">>, <<"b">>}

\* The scalars of every kind, and the two that are the leaves of the larger
\* documents.
DocScalars ==
  { DocNull, DocBool(TRUE), DocBool(FALSE), DocString(<<"s">>),
    DocNumber(Literal(<<>>, <<"1">>, None, None)),
    DocNumber(Literal(<<"-">>, <<"2">>, Some(<<"5">>), Some(Exp("e", <<"+">>, <<"3">>)))) }

\* The documents of exactly n nodes, the sequences of documents of n nodes
\* in all, and the member lists whose values have n nodes in all.
RECURSIVE DocsOfSize(_), DocSeqs(_), DocMembers(_)
DocsOfSize(n) ==
  (IF n = 1 THEN {DocString(<<"s">>), DocNumber(Literal(<<>>, <<"1">>, None, None))} ELSE {})
    \cup {DocArray(es) : es \in DocSeqs(n - 1)}
    \cup {DocObject(ms) : ms \in DocMembers(n - 1)}

DocSeqs(n) ==
  IF n = 0 THEN {<<>>}
  ELSE UNION {{<<d>> \o rest : d \in DocsOfSize(h), rest \in DocSeqs(n - h)} : h \in 1..n}

DocMembers(n) ==
  IF n = 0 THEN {<<>>}
  ELSE UNION {{<<[k |-> k, v |-> d]>> \o rest :
                 k \in DocKeys, d \in DocsOfSize(h), rest \in DocMembers(n - h)} : h \in 1..n}

\* The objects of three members over three keys.
WideObjects ==
  {DocObject(<<[k |-> k1, v |-> DocNull], [k |-> k2, v |-> DocBool(TRUE)],
               [k |-> k3, v |-> DocString(<<"s">>)]>>) : k1, k2, k3 \in {<<"a">>, <<"b">>, <<"c">>}}

\* The documents: the scalars, alone and as the one child of a container,
\* the objects of three members, and every document of at most MaxNodes
\* nodes over the two leaves.
Docs ==
  DocScalars
    \cup {DocArray(<<d>>) : d \in DocScalars}
    \cup {DocObject(<<[k |-> <<"a">>, v |-> d]>>) : d \in DocScalars}
    \cup WideObjects
    \cup UNION {DocsOfSize(n) : n \in 1..MaxNodes}

RECURSIVE Concat(_)
Concat(ss) == IF ss = <<>> THEN <<>> ELSE Head(ss) \o Concat(Tail(ss))

\* The lexemes of a document, in order.
RECURSIVE DocLexemes(_)
DocLexemes(d) ==
  CASE d.t = "Null" -> <<<<"n", "u", "l", "l">>>>
    [] d.t = "Bool" -> IF d.b THEN <<<<"t", "r", "u", "e">>>>
                       ELSE <<<<"f", "a", "l", "s", "e">>>>
    [] d.t = "String" -> <<<<QUOTE>> \o d.s \o <<QUOTE>>>>
    [] d.t = "Number" -> <<LiteralText(d.lit)>>
    [] d.t = "Array" ->
         <<<<"[">>>>
           \o Concat([i \in 1..Len(d.elems) |->
                        (IF i > 1 THEN <<<<",">>>> ELSE <<>>) \o DocLexemes(d.elems[i])])
           \o <<<<"]">>>>
    [] d.t = "Object" ->
         <<<<"{">>>>
           \o Concat([i \in 1..Len(d.members) |->
                        (IF i > 1 THEN <<<<",">>>> ELSE <<>>)
                          \o <<<<QUOTE>> \o d.members[i].k \o <<QUOTE>>, <<":">>>>
                          \o DocLexemes(d.members[i].v)])
           \o <<<<"}">>>>

\* Lexemes written one after the other, with ws between two of them.
RECURSIVE Join(_, _)
Join(lexemes, ws) ==
  IF lexemes = <<>> THEN <<>>
  ELSE IF Len(lexemes) = 1 THEN lexemes[1]
  ELSE lexemes[1] \o ws \o Join(Tail(lexemes), ws)

\* What JSON allows between two tokens and the scanner skips, and what JSON
\* allows and the scanner does not skip (a carriage return).
Spacings == {<<>>, <<" ", "\t", "\n">>}

Lexemes ==
  { <<"{">>, <<"}">>, <<"[">>, <<"]">>, <<":">>, <<",">>,
    <<QUOTE, "a", QUOTE>>, <<"1">> }

RECURSIVE LexemeSeqs(_)
LexemeSeqs(n) ==
  IF n = 0 THEN {<<>>}
  ELSE {<<>>} \cup {<<x>> \o rest : x \in Lexemes, rest \in LexemeSeqs(n - 1)}

\* The source of an input: a document and the spacing it is written with, or
\* an opening brace or bracket and at most MaxLexemes lexemes after it,
\* written with one space between two of them, or nothing but spacing.
DocSources ==
  {[kind |-> "doc", doc |-> d, ws |-> ws] : d \in Docs, ws \in Spacings \cup {<<"\r", "\n">>}}

LexemeSources ==
  {[kind |-> "lexemes", lexemes |-> <<o>> \o ls] :
     o \in {<<"{">>, <<"[">>}, ls \in LexemeSeqs(MaxLexemes)}

BlankSources == {[kind |-> "blank", ws |-> ws] : ws \in Spacings}

\* What may follow the closer of a document: further tokens, well formed or
\* not, and characters the scanner panics on.
Trailers ==
  {<<" ", "@">>, <<"@">>, <<" ", "[", "2", "]">>, <<"}">>, <<",">>, <<QUOTE>>,
   <<"1", "-", "2">>, <<"\n", "n", "u", "l">>}

\* An object or an array of fewer than MaxNodes nodes, then a trailer.
TrailedSources ==
  {[kind |-> "trailed", doc |-> d, ws |-> <<>>, trailer |-> tr] :
     d \in {e \in UNION {DocsOfSize(n) : n \in 1..(MaxNodes - 1)} :
              e.t \in {"Array", "Object"}},
     tr \in Trailers}

(***************************************************************************)
(* Number literals and Numbers given to the scanner and to Display         *)
(***************************************************************************)

LiteralInts ==
  { <<>>, <<"0">>, <<"7">>, <<"1", "2", "3">>,
    <<"1", "6", "7", "7", "7", "2", "1", "7">>,
    <<"2", "1", "4", "7", "4", "8", "3", "6", "4", "7">>,
    <<"2", "1", "4", "7", "4", "8", "3", "6", "4", "8">>,
    <<"2", "1", "4", "7", "4", "8", "3", "6", "4", "9">> }

LiteralFracs == {None, Some(<<"5">>), Some(<<"4", "5", "6">>), Some(<<"0">>)}

LiteralExps ==
  { None, Some(Exp("e", <<"+">>, <<"3">>)), Some(Exp("E", <<"-">>, <<"2">>)),
    Some(Exp("e", <<>>, <<"0">>)),
    Some(Exp("E", <<>>, <<"2", "1", "4", "7", "4", "8", "3", "6", "4", "8">>)) }

\* The literals [sign]D*[.F+][(e|E)[sign]X+].
Literals ==
  {Literal(s, i, f, x) : s \in {<<>>, <<"-">>, <<"+">>}, i \in LiteralInts,
                         f \in LiteralFracs, x \in LiteralExps}

\* The Numbers given to Display: an integer, an optional fraction (in
\* [0, 1) as a scan leaves it, or the negative one that Number::new also
\* takes) and an optional exponent.
NumberInts == {0, 7, -7, 123, -123, 16777217, I32Max}
NumberFracs ==
  {None, Some(F32Zero), Some(F32OfFraction(<<"5">>)), Some(F32OfFraction(<<"4", "5", "6">>)),
   Some(F32OfFraction(<<"0", "0", "1">>)), Some([F32OfFraction(<<"5">>) EXCEPT !.neg = TRUE])}
NumberExponents == {None, Some(0), Some(3), Some(-2)}

Numbers ==
  {NumberNew(i, f, x) : i \in NumberInts, f \in NumberFracs, x \in NumberExponents}

(***************************************************************************)
(* Texts given to a Tokenizer that is called until the end of its input    *)
(***************************************************************************)
MaxChars == 4
MaxPieces == 3
MaxEofCalls == 2

\* The texts of at most n characters of cs.
RECURSIVE CharSeqs(_, _)
CharSeqs(cs, n) ==
  IF n = 0 THEN {<<>>}
  ELSE {<<>>} \cup {<<c>> \o rest : c \in cs, rest \in CharSeqs(cs, n - 1)}

\* The pieces of texts about keywords: the three keywords, two one-character
\* tokens, a space, and two characters no token starts with.
Pieces ==
  {<<"t", "r", "u", "e">>, <<"f", "a", "l", "s", "e">>, <<"n", "u", "l", "l">>,
   <<"{">>, <<",">>, <<" ">>, <<"@">>, <<"T">>}

RECURSIVE PieceSeqs(_)
PieceSeqs(n) ==
  IF n = 0 THEN {<<>>}
  ELSE {<<>>} \cup {<<x>> \o rest : x \in Pieces, rest \in PieceSeqs(n - 1)}

\* The texts: those of at most MaxChars characters about strings and about
\* numbers, those of at most two one-character tokens, those of at most
\* MaxPieces pieces, and six with numeric characters outside ASCII after a
\* digit, a dot or an e, and at the start.
Texts ==
  CharSeqs({QUOTE, "\\", "a", " "}, MaxChars)
    \cup CharSeqs({"1", "-", "+", ".", "e", ","}, MaxChars)
    \cup CharSeqs({"{", "}", "[", "]", ":", ","}, 2)
    \cup {Concat(ps) : ps \in PieceSeqs(MaxPieces)}
    \cup {<<"1", "U+0663">>, <<"U+FF10">>, <<".", "U+00BD">>, <<"1", "e", "U+2167">>,
          <<"1", "U+00B9", "-">>, <<"2", ".", "5", "U+0967", ",">>}

\* The text from pos on, with gap written where each call of
\* Tokenizer::next starts, and at the end when the calls reach it; r is what
\* the call at pos returns.
RECURSIVE Spaced(_, _, _)
SpacedOn(text, pos, gap, r) ==
  IF r.ok /\ r.val.some /\ r.pos > pos
  THEN gap \o SubSeq(text, pos + 1, r.pos) \o Spaced(text, r.pos, gap)
  ELSE gap \o SubSeq(text, pos + 1, Len(text)) \o (IF r.ok THEN gap ELSE <<>>)

Spaced(text, pos, gap) == SpacedOn(text, pos, gap, TokenizerNext(text, pos))

\* A text and what is written where a call of Tokenizer::next starts and at
\* the end of the text: nothing, or a space, a tab and a newline.
TextSources ==
  {[kind |-> "text", text |-> t, gap |-> g] :
     t \in Texts, g \in {<<>>, <<" ", "\t", "\n">>}}

\* The text of a source.
SourceText(s) ==
  CASE s.kind = "doc" -> Join(DocLexemes(s.doc), s.ws)
    [] s.kind = "lexemes" -> Join(s.lexemes, <<" ">>)
    [] s.kind = "blank" -> s.ws
    [] s.kind = "trailed" -> Join(DocLexemes(s.doc), s.ws) \o s.trailer
    [] s.kind = "text" -> Spaced(s.text, 0, s.gap)

(***************************************************************************)
(* The state machines: one parse call, one Number scanned and rendered,    *)
(* and one Tokenizer called until the end of its input                     *)
(***************************************************************************)
VARIABLES
  src,       \* the source of the input (history)
  input,     \* the text given to Parser::new or to Tokenizer::new
  pos,       \* the cursor of the Tokenizer
  peeked, stack, value, pc, msg, consumed,   \* the parse call, as in p above
  result,    \* what parse returned: None until it returns
  lit,       \* the number literal scanned (history), None for a given Number
  number,    \* the Number scanned, or given
  text,      \* what Display wrote for number
  rescan,    \* the Number scanned from text
  npc,       \* the position of the run on a Number
  emitted,   \* the tokens the calls of Tokenizer::next have returned (history)
  tpc,       \* what the last call of Tokenizer::next did
  eofs,      \* the number of calls of Tokenizer::next that returned None
  calls      \* the number of calls of Tokenizer::next made

vars == <<src, input, pos, peeked, stack, value, pc, msg, consumed, result,
          lit, number, text, rescan, npc, emitted, tpc, eofs, calls>>

numberVars == <<lit, number, text, rescan, npc>>

tokenizerVars == <<emitted, tpc, eofs, calls>>

\* The parse call in progress, as the record the steps work on.
P == [pos |-> pos, peeked |-> peeked, stack |-> stack, value |-> value,
      pc |-> pc, msg |-> msg, consumed |-> consumed]

\* The call moves on to q; reaching "done", parse returns the value.
Becomes(q) ==
  /\ pos' = q.pos
  /\ peeked' = q.peeked
  /\ stack' = q.stack
  /\ value' = q.value
  /\ pc' = q.pc
  /\ msg' = q.msg
  /\ consumed' = q.consumed
  /\ result' = IF q.pc = "done" THEN Some(q.value) ELSE None
  /\ UNCHANGED <<src, input>>
  /\ UNCHANGED numberVars
  /\ UNCHANGED tokenizerVars

\* Parser::new(input), for the input of a source.
Init ==
  /\ \/ src \in DocSources
     \/ src \in LexemeSources
     \/ src \in BlankSources
     \/ src \in TrailedSources
  /\ input = SourceText(src)
  /\ pos = ParserNew.pos
  /\ peeked = ParserNew.peeked
  /\ stack = ParserNew.stack
  /\ value = ParserNew.value
  /\ pc = ParserNew.pc
  /\ msg = ParserNew.msg
  /\ consumed = ParserNew.consumed
  /\ result = None
  /\ lit = None
  /\ number = None
  /\ text = None
  /\ rescan = None
  /\ npc = "idle"
  /\ emitted = <<>>
  /\ tpc = "idle"
  /\ eofs = 0
  /\ calls = 0

ParseCall == pc = "parse" /\ Becomes(ParseStep(input, P))
ParseObjectEnter == pc = "parse_object" /\ Becomes(ParseObjectEnterStep(input, P))
ParseObjectLoop == pc = "object_loop" /\ Becomes(ParseObjectLoopStep(input, P))
ParseObjectValue == pc = "object_value" /\ Becomes(ParseObjectValueStep(input, P))
ParseObjectStore == pc = "object_store" /\ Becomes(ParseObjectStoreStep(input, P))
ParseArrayEnter == pc = "parse_array" /\ Becomes(ParseArrayEnterStep(input, P))
ParseArrayLoop == pc = "array_loop" /\ Becomes(ParseArrayLoopStep(input, P))
ParseArrayStore == pc = "array_store" /\ Becomes(ParseArrayStoreStep(input, P))

Next ==
  \/ ParseCall
  \/ ParseObjectEnter
  \/ ParseObjectLoop
  \/ ParseObjectValue
  \/ ParseObjectStore
  \/ ParseArrayEnter
  \/ ParseArrayLoop
  \/ ParseArrayStore

Spec == Init /\ [][Next]_vars

\* Tokenizer::new on the text of a literal, or a Number given as it is.
InitNumber ==
  /\ src = [kind |-> "number"]
  /\ pos = 0
  /\ peeked = ParserNew.peeked
  /\ stack = ParserNew.stack
  /\ value = ParserNew.value
  /\ pc = "idle"
  /\ msg = ParserNew.msg
  /\ consumed = ParserNew.consumed
  /\ result = None
  /\ text = None
  /\ rescan = None
  /\ emitted = <<>>
  /\ tpc = "idle"
  /\ eofs = 0
  /\ calls = 0
  /\ \/ /\ lit \in {Some(l) : l \in Literals}
        /\ input = LiteralText(lit.v)
        /\ number = None
        /\ npc = "scan"
     \/ /\ lit = None
        /\ input = <<>>
        /\ number \in {Some(n) : n \in Numbers}
        /\ npc = "render"

\* The result r of consume_number on the literal.
Scanned(r) ==
  /\ pos' = r.pos
  /\ number' = IF r.ok THEN Some(r.val.n) ELSE None
  /\ npc' = IF r.ok THEN "render" ELSE "panic"
  /\ msg' = IF r.ok THEN msg ELSE r.msg
  /\ UNCHANGED <<src, input, peeked, stack, value, pc, consumed, result, lit, text, rescan>>
  /\ UNCHANGED tokenizerVars

\* consume_number on the text of the literal.
ScanLiteral == npc = "scan" /\ Scanned(consume_number(input, pos))

\* format!("{}", number)
RenderNumber ==
  /\ npc = "render"
  /\ text' = Some(NumberDisplay(number.v))
  /\ npc' = "rescan"
  /\ UNCHANGED <<src, input, pos, peeked, stack, value, pc, msg, consumed, result,
                 lit, number, rescan>>
  /\ UNCHANGED tokenizerVars

\* The result r of consume_number on the rendered text.
Rescanned(r) ==
  /\ input' = text.v
  /\ pos' = r.pos
  /\ rescan' = IF r.ok THEN Some(r.val.n) ELSE None
  /\ npc' = IF r.ok THEN "end" ELSE "panic"
  /\ msg' = IF r.ok THEN msg ELSE r.msg
  /\ UNCHANGED <<src, peeked, stack, value, pc, consumed, result, lit, number, text>>
  /\ UNCHANGED tokenizerVars

\* Tokenizer::new(text), then consume_number.
RescanText == npc = "rescan" /\ Rescanned(consume_number(text.v, 0))

NextNumber ==
  \/ ScanLiteral
  \/ RenderNumber
  \/ RescanText

SpecNumber == InitNumber /\ [][NextNumber]_vars

\* Tokenizer::new(input), for the input of a text source.
InitTokenizer ==
  /\ src \in TextSources
  /\ input = SourceText(src)
  /\ pos = 0
  /\ peeked = ParserNew.peeked
  /\ stack = ParserNew.stack
  /\ value = ParserNew.value
  /\ pc = "idle"
  /\ msg = ParserNew.msg
  /\ consumed = ParserNew.consumed
  /\ result = None
  /\ lit = None
  /\ number = None
  /\ text = None
  /\ rescan = None
  /\ npc = "idle"
  /\ emitted = <<>>
  /\ tpc = "next"
  /\ eofs = 0
  /\ calls = 0

\* The result r of a call of Tokenizer::next: Some(token), None or a panic.
Called(r) ==
  /\ pos' = r.pos
  /\ emitted' = IF r.ok /\ r.val.some THEN Append(emitted, r.val.v) ELSE emitted
  /\ tpc' = IF ~r.ok THEN "panic" ELSE IF r.val.some THEN "next" ELSE "eof"
  /\ eofs' = IF r.ok /\ ~r.val.some THEN eofs + 1 ELSE eofs
  /\ calls' = calls + 1
  /\ msg' = IF r.ok THEN msg ELSE r.msg
  /\ UNCHANGED <<src, input, peeked, stack, value, pc, consumed, result>>
  /\ UNCHANGED numberVars

\* A call can be made: no call has panicked, and the end of the input has
\* been returned fewer than MaxEofCalls times.
CanCall == tpc \in {"next", "eof"} /\ eofs < MaxEofCalls

\* A call of Tokenizer::next, after a token or after the end of the input;
\* a panic ends the calls.
NextCall == CanCall /\ Called(TokenizerNext(input, pos))

SpecTokenizer == InitTokenizer /\ [][NextCall]_vars

\* The caller goes on calling next: a call that can be made is made.
CallMade == CanCall /\ calls' = calls + 1

SpecTokenizerCalls == SpecTokenizer /\ WF_calls(CallMade)
(***************************************************************************)
(* What a document denotes                                                 *)
(***************************************************************************)
RECURSIVE StripLeadingZeros(_)
StripLeadingZeros(ds) ==
  IF ds # <<>> /\ ds[1] = "0" THEN StripLeadingZeros(Tail(ds)) ELSE ds

\* The decimal digits a are at most the decimal digits b (no leading zeros).
RECURSIVE DigitsAtMost(_, _)
DigitsAtMost(a, b) ==
  IF Len(a) # Len(b) THEN Len(a) < Len(b)
  ELSE IF a = <<>> THEN TRUE
  ELSE IF a[1] # b[1] THEN DigitVal(a[1]) < DigitVal(b[1])
  ELSE DigitsAtMost(Tail(a), Tail(b))

\* The signed decimal sign digits fits a signed 32-bit integer.
FitsI32(sign, digits) ==
  DigitsAtMost(StripLeadingZeros(digits),
               IF sign = <<"-">>
               THEN <<"2", "1", "4", "7", "4", "8", "3", "6", "4", "8">>
               ELSE <<"2", "1", "4", "7", "4", "8", "3", "6", "4", "7">>)

\* The value of the signed decimal sign digits, within 32 bits: 0 when
\* there are no digits.
RECURSIVE SignedValue(_, _, _, _)
SignedValue(sign, digits, i, acc) ==
  IF i > Len(digits) THEN acc
  ELSE SignedValue(sign, digits, i + 1,
                   IF sign = <<"-">> THEN acc * 10 - DigitVal(digits[i])
                   ELSE acc * 10 + DigitVal(digits[i]))

LiteralFits(l) ==
  FitsI32(l.sign, l.int) /\ (l.exp.some => FitsI32(l.exp.v.sign, l.exp.v.digits))

\* The Number a literal denotes, part by part: the signed value of the
\* integer digits (0 when there are none), the fraction 0.frac, the signed
\* value of the exponent digits.
LiteralNumber(l) ==
  NumberNew(SignedValue(l.sign, l.int, 1, 0),
            IF l.frac.some THEN Some(F32OfFraction(l.frac.v)) ELSE None,
            IF l.exp.some THEN Some(SignedValue(l.exp.v.sign, l.exp.v.digits, 1, 0))
            ELSE None)

\* The tree with the nesting of the document: one node per value, one child
\* per element and per member, in the order of the text.
RECURSIVE MirrorTree(_)
MirrorTree(d) ==
  CASE d.t = "Null" -> JValueNull
    [] d.t = "Bool" -> JValueBool(d.b)
    [] d.t = "String" -> JValueString(d.s)
    [] d.t = "Number" -> JValueNumber(LiteralNumber(d.lit))
    [] d.t = "Array" -> JValueArray([i \in 1..Len(d.elems) |-> MirrorTree(d.elems[i])])
    [] d.t = "Object" ->
         JValueObject([i \in 1..Len(d.members) |->
                         [k |-> d.members[i].k, v |-> MirrorTree(d.members[i].v)]])

\* No object of the document writes a key twice.
RECURSIVE DistinctKeys(_)
DistinctKeys(d) ==
  CASE d.t = "Array" -> \A i \in 1..Len(d.elems) : DistinctKeys(d.elems[i])
    [] d.t = "Object" ->
         /\ \A i, j \in 1..Len(d.members) :
              d.members[i].k = d.members[j].k => i = j
         /\ \A i \in 1..Len(d.members) : DistinctKeys(d.members[i].v)
    [] OTHER -> TRUE

\* The positions of the members that are the first with their key, in order.
RECURSIVE FirstOccurrences(_, _)
FirstOccurrences(ms, i) ==
  IF i > Len(ms) THEN <<>>
  ELSE (IF \E j \in 1..(i - 1) : ms[j].k = ms[i].k THEN <<>> ELSE <<i>>)
         \o FirstOccurrences(ms, i + 1)

\* The position of the last member with the key k.
LastOccurrence(ms, k) ==
  CHOOSE i \in 1..Len(ms) : ms[i].k = k /\ \A j \in (i + 1)..Len(ms) : ms[j].k # k

\* The tree of the document in which every object holds each of its keys
\* once, at the place of the key's first member and with the value of its
\* last.
RECURSIVE LastWinsTree(_)
LastWinsTree(d) ==
  CASE d.t = "Array" -> JValueArray([i \in 1..Len(d.elems) |-> LastWinsTree(d.elems[i])])
    [] d.t = "Object" ->
         LET first == FirstOccurrences(d.members, 1) IN
         JValueObject([n \in 1..Len(first) |->
                         [k |-> d.members[first[n]].k,
                          v |-> LastWinsTree(
                                  d.members[LastOccurrence(d.members,
                                                           d.members[first[n]].k)].v)]])
    [] OTHER -> MirrorTree(d)

\* The keys of a document and of a tree, object by object: the keys of each
\* object in order, and the same of its children.
RECURSIVE DocKeyOrder(_)
DocKeyOrder(d) ==
  CASE d.t = "Array" -> [kids |-> [i \in 1..Len(d.elems) |-> DocKeyOrder(d.elems[i])]]
    [] d.t = "Object" ->
         [keys |-> [i \in 1..Len(d.members) |-> d.members[i].k],
          kids |-> [i \in 1..Len(d.members) |-> DocKeyOrder(d.members[i].v)]]
    [] OTHER -> [leaf |-> TRUE]

RECURSIVE TreeKeyOrder(_)
TreeKeyOrder(v) ==
  CASE v.t = "Array" -> [kids |-> [i \in 1..Len(v.arr) |-> TreeKeyOrder(v.arr[i])]]
    [] v.t = "Object" ->
         [keys |-> [i \in 1..Len(v.m) |-> v.m[i].k],
          kids |-> [i \in 1..Len(v.m) |-> TreeKeyOrder(v.m[i].v)]]
    [] OTHER -> [leaf |-> TRUE]

\* The input is a document with an object or an array at top level ...
IsDocument == src.kind = "doc" /\ src.doc.t \in {"Array", "Object"}

\* ... written with the whitespace the scanner skips between its tokens.
IsSpacedDocument == IsDocument /\ src.ws \in Spacings

(***************************************************************************)
(* The claims on Parser::parse (under Spec)                                *)
(***************************************************************************)

\* C1, as amended: for a valid JSON text with an object or an array at top
\* level, in which no object repeats a key and whose tokens are separated
\* by nothing but spaces, tabs and newlines, parse does not panic, and the
\* tree it returns has the nesting of the document: one node per value,
\* one child per member and per element in the order of the text, and for
\* each scalar the matching leaf.
C1_ParseMirrorsDocument ==
  (IsSpacedDocument /\ DistinctKeys(src.doc)) =>
    /\ pc # "panic"
    /\ pc = "done" => result = Some(MirrorTree(src.doc))

\* A call that returned the tree of an object with a nested array.
C1_Witness ==
  /\ IsSpacedDocument
  /\ src.ws # <<>>
  /\ pc = "done"
  /\ result = Some(JValueObject(<<[k |-> <<"a">>,
                                   v |-> JValueArray(<<JValueNumber(NumberNew(1, None, None)),
                                                       JValueString(<<"s">>)>>)]>>))

\* C1, as stated: the same of every valid JSON text with an object or an
\* array at top level (an object may repeat a key, and a carriage return
\* may stand between two tokens).
C1_AsStated ==
  IsDocument =>
    /\ pc # "panic"
    /\ pc = "done" => result = Some(MirrorTree(src.doc))

\* C2, as stated: an array in which a comma is immediately followed by
\* the closing bracket makes parse fail: parse returns no tree after
\* consuming a comma and then a closing bracket.
C2_TrailingCommaRejected ==
  pc = "done" =>
    \A i \in 1..(Len(consumed) - 1) :
      ~(consumed[i] = Comma /\ consumed[i + 1] = RightBracket)

\* The first item the tokenizer yields for the input.
FirstItem == TokenizerNext(input, 0)

StartsContainer(r) == r.ok /\ r.val \in {Some(LeftBrace), Some(LeftBracket)}

\* C3: whenever the first token of the input is not `{` or `[` (the input
\* is empty or blank, or starts with a scalar), parse panics and returns
\* no tree.
C3_NonContainerRejected ==
  (pc # "parse" /\ ~StartsContainer(FirstItem)) => (pc = "panic" /\ result = None)

\* A call on a blank input that panicked.
C3_Witness ==
  /\ src.kind = "blank"
  /\ src.ws # <<>>
  /\ pc = "panic"
  /\ result = None

\* C4: when an object of the text writes a key more than once, the Object
\* returned holds the key once, with the value of its last member and at
\* the place of its first member among the other keys.
C4_DuplicateKeyLastWins ==
  (IsSpacedDocument /\ ~DistinctKeys(src.doc)) =>
    /\ pc # "panic"
    /\ pc = "done" => result = Some(LastWinsTree(src.doc))

\* The call on {"a":1,"b":1,"a":"s"} returned a, then b, with a mapped to "s".
C4_Witness ==
  /\ IsSpacedDocument
  /\ pc = "done"
  /\ src.doc.t = "Object"
  /\ Len(src.doc.members) = 3
  /\ result = Some(JValueObject(<<[k |-> <<"a">>, v |-> JValueString(<<"s">>)],
                                  [k |-> <<"b">>, v |-> JValueNumber(NumberNew(1, None, None))]>>))

\* C5: when the keys of every object of the text are distinct, each Object
\* returned enumerates its keys in the order of the text, whatever their
\* number and at every level of nesting.
C5_KeysInSourceOrder ==
  (IsSpacedDocument /\ DistinctKeys(src.doc) /\ pc = "done") =>
    TreeKeyOrder(result.v) = DocKeyOrder(src.doc)

\* The call on {"b":{"b":1,"a":1}} returned the inner keys as b, then a.
C5_Witness ==
  /\ IsSpacedDocument
  /\ pc = "done"
  /\ DistinctKeys(src.doc)
  /\ TreeKeyOrder(result.v) =
       [keys |-> <<<<"b">>>>,
        kids |-> <<[keys |-> <<<<"b">>, <<"a">>>>,
                    kids |-> <<[leaf |-> TRUE], [leaf |-> TRUE]>>]>>]

\* The next item of the token stream, and the one after it.
HeadItem == IF peeked.some THEN Ok(pos, peeked.v) ELSE TokenizerNext(input, pos)
SecondItem == TokenizerNext(input, HeadItem.pos)

IsToken(r, kinds) == r.ok /\ r.val.some /\ r.val.v.t \in kinds

ValueStarts == {"Null", "Bool", "String", "Number", "LeftBrace", "LeftBracket"}

\* At the head of the loop of parse_object, with anything but the closing
\* brace next: a String and then a colon go on to the value, anything else
\* panics.  At the value: a token that starts no value panics.
C6_MemberStep ==
  /\ (pc = "object_loop" /\ ~IsToken(HeadItem, {"RightBrace"})) =>
       IF IsToken(HeadItem, {"String"}) /\ IsToken(SecondItem, {"Collon"})
       THEN pc' = "object_value"
       ELSE pc' = "panic" /\ result' = None
  /\ (pc = "object_value" /\ ~IsToken(HeadItem, ValueStarts)) =>
       (pc' = "panic" /\ result' = None)

\* C6: in an object each member must be a String token, then a colon, then
\* a token that starts a value; if the key is not a String, the colon is
\* missing or the token after the colon starts no value, parse panics and
\* returns no tree.
C6_MemberShape == [][C6_MemberStep]_vars

\* The call on {"a":} panicked at the value of the member.
C6_Witness ==
  /\ pc = "panic"
  /\ msg = "invalid json."
  /\ result = None
  /\ consumed = <<LeftBrace, JTokenString(<<"a">>), Collon>>
  /\ peeked = Some(Some(RightBrace))

\* After a member or an element is stored: a comma or the closer of the
\* container goes back to the head of the loop, anything else (another
\* token, the end of the input) panics.
C7_SeparatorStep ==
  /\ pc = "object_store" =>
       IF IsToken(HeadItem, {"Comma", "RightBrace"})
       THEN pc' = "object_loop"
       ELSE pc' = "panic" /\ result' = None
  /\ pc = "array_store" =>
       IF IsToken(HeadItem, {"Comma", "RightBracket"})
       THEN pc' = "array_loop"
       ELSE pc' = "panic" /\ result' = None

EndsValue(token) == token.t \in {"Null", "Bool", "String", "Number", "RightBrace", "RightBracket"}
StartsValue(token) == token.t \in ValueStarts

\* No two values stand side by side in the tokens.
NoAdjacentValues(tokens) ==
  \A i \in 1..(Len(tokens) - 1) : ~(EndsValue(tokens[i]) /\ StartsValue(tokens[i + 1]))

\* The containers the tokens open and have not closed, the innermost last;
\* <<"unopened">> when a closer does not match.
RECURSIVE OpenContainers(_, _, _)
OpenContainers(tokens, i, open) ==
  IF i > Len(tokens) THEN open
  ELSE IF tokens[i].t \in {"LeftBrace", "LeftBracket"}
       THEN OpenContainers(tokens, i + 1, Append(open, tokens[i].t))
  ELSE IF tokens[i].t \in {"RightBrace", "RightBracket"}
       THEN IF open # <<>> /\ open[Len(open)] =
                 (IF tokens[i].t = "RightBrace" THEN "LeftBrace" ELSE "LeftBracket")
            THEN OpenContainers(tokens, i + 1, SubSeq(open, 1, Len(open) - 1))
            ELSE <<"unopened">>
  ELSE OpenContainers(tokens, i + 1, open)

\* C7: after every stored member or element the next token must be a
\* comma or the closer of the container; any other token and the end of
\* the input make parse panic, so that no tree is returned for two values
\* side by side or for a container left open.
C7_SeparatorOrCloser ==
  /\ [][C7_SeparatorStep]_vars
  /\ [](pc = "done" => (NoAdjacentValues(consumed) /\ OpenContainers(consumed, 1, <<>>) = <<>>))

\* The call on {"a":1 "a" panicked after the member, at the second string.
C7_Witness ==
  /\ pc = "panic"
  /\ msg = "invalid object"
  /\ result = None
  /\ peeked = Some(Some(JTokenString(<<"a">>)))
  /\ Top(stack).m = <<[k |-> <<"a">>, v |-> JValueNumber(NumberNew(1, None, None))]>>

(***************************************************************************)
(* The claims on Number: consume_number and Display (under SpecNumber)     *)
(***************************************************************************)

\* The text of the literal starts with a character that Iterator::next
\* hands to consume_number.
StartsNumber(t) == t # <<>> /\ t[1] \in Digit \cup {"-", "+", "."}

\* C8: scanning a literal [sign]D*[.F+][(e|E)[sign]X+] whose integer and
\* exponent parts fit a signed 32-bit integer consumes it whole and yields
\* one Number: its integer is the signed value of D (0 when D is empty),
\* its fraction is present exactly when the literal has one and is then
\* 0.F, its exponent is present exactly when the literal has one and is
\* then the signed value of X.
C8_NumberDecomposition ==
  (lit.some /\ npc # "scan" /\ LiteralFits(lit.v)) =>
    /\ number = Some(LiteralNumber(lit.v))
    /\ npc = "render" => pos = Len(LiteralText(lit.v))
    /\ StartsNumber(LiteralText(lit.v)) =>
         TokenizerNext(LiteralText(lit.v), 0)
           = Ok(Len(LiteralText(lit.v)), Some(JTokenNumber(LiteralNumber(lit.v))))

\* The literal -123.456e+3 was scanned as -123, 0.456 and 3.
C8_Witness ==
  /\ npc = "render"
  /\ lit = Some(Literal(<<"-">>, <<"1", "2", "3">>, Some(<<"4", "5", "6">>),
                        Some(Exp("e", <<"+">>, <<"3">>))))
  /\ number = Some(NumberNew(-123, Some(F32OfFraction(<<"4", "5", "6">>)), Some(3)))
  /\ pos = 11

\* The place after the digits of t that start at i.
RECURSIVE DigitsEnd(_, _)
DigitsEnd(t, i) == IF i <= Len(t) /\ t[i] \in Digit THEN DigitsEnd(t, i + 1) ELSE i

\* What a decimal denotes: its sign (none for a zero), the digits of its
\* integer part without leading zeros, the digits of its fraction without
\* trailing zeros, and its exponent likewise (a zero exponent for none).
Denotation(neg, int, frac, expneg, exp) ==
  [neg |-> neg /\ (StripLeadingZeros(int) # <<>> \/ DropTrailingZeros(frac) # <<>>),
   int |-> StripLeadingZeros(int),
   frac |-> DropTrailingZeros(frac),
   expneg |-> expneg /\ StripLeadingZeros(exp) # <<>>,
   exp |-> StripLeadingZeros(exp)]

LiteralDenotation(l) ==
  Denotation(l.sign = <<"-">>, l.int,
             IF l.frac.some THEN l.frac.v ELSE <<>>,
             l.exp.some /\ l.exp.v.sign = <<"-">>,
             IF l.exp.some THEN l.exp.v.digits ELSE <<>>)

\* The parts of a text [-]digits[.digits][E(+|-)digits]: where they start.
TextParts(t) ==
  LET int == IF t # <<>> /\ t[1] = "-" THEN 2 ELSE 1
      dot == DigitsEnd(t, int)
      e == IF dot <= Len(t) /\ t[dot] = "." THEN DigitsEnd(t, dot + 1) ELSE dot
      x == IF e + 1 <= Len(t) /\ t[e] = "E" /\ t[e + 1] \in {"+", "-"} THEN e + 2 ELSE e
  IN  [int |-> int, dot |-> dot, e |-> e, x |-> x, end |-> DigitsEnd(t, x)]

TextDenotation(t) ==
  LET p == TextParts(t) IN
  Denotation(p.int = 2, SubSeq(t, p.int, p.dot - 1), SubSeq(t, p.dot + 1, p.e - 1),
             p.x > p.e /\ t[p.e + 1] = "-", SubSeq(t, p.x, p.end - 1))

\* The text ends with E, a sign and digits.
ExponentWritten(t) ==
  LET p == TextParts(t) IN p.x = p.e + 2 /\ p.end > p.x /\ p.end = Len(t) + 1

\* C9, as stated: for every literal of the grammar, the text rendered for
\* the Number scanned from it denotes the sign and the magnitude of the
\* literal, with the exponent written as E and an explicitly signed
\* integer.  (Stated here of the literals whose integer and exponent
\* parts fit 32 bits, which the scanner reads in full.)
C9_RenderKeepsLiteral ==
  (lit.some /\ text.some /\ LiteralFits(lit.v)) =>
    /\ TextParts(text.v).end = Len(text.v) + 1
    /\ TextDenotation(text.v) = LiteralDenotation(lit.v)
    /\ lit.v.exp.some => ExponentWritten(text.v)

\* The effective value of a Number is its integer plus its fraction (minus
\* it for a negative integer), times ten to its exponent.  With the
\* fraction in [0, 1) the integer and the fraction are determined by their
\* sum, so two Numbers with the same exponent have the same effective value
\* exactly when they have the same integer and the same fraction, an absent
\* fraction being 0.  (Rendering writes the exponent out in full and
\* scanning reads it back, so the exponents here are the same.)
FractionOf(n) == IF n.frac.some THEN n.frac.v ELSE F32Zero
ExponentOf(n) == IF n.exponent.some THEN n.exponent.v ELSE 0

SameEffectiveValue(a, b) ==
  /\ ExponentOf(a) = ExponentOf(b)
  /\ a.int = b.int
  /\ FractionOf(a) = FractionOf(b)

\* The fraction of the Number, if any, is in [0, 1).
FractionInUnit(n) ==
  n.frac.some => (n.frac.v.m = 0 \/ (~n.frac.v.neg /\ n.frac.v.e < -23))

\* C10, as stated: for any Number with its fraction in [0, 1), scanning the
\* text rendered for it yields a Number with the same effective value.
C10_RescanKeepsValue ==
  (npc = "end" /\ FractionInUnit(number.v)) =>
    (rescan.some /\ SameEffectiveValue(number.v, rescan.v))

(***************************************************************************)
(* The calls of Tokenizer::next                                            *)
(***************************************************************************)
\* The characters a call skips before a token.
Blank == {" ", "\t", "\n"}

\* Where the call at the cursor finds its first character that is not
\* blank: the number of characters before it (Len(input) when there is none).
CallStart ==
  CHOOSE i \in pos..Len(input) :
    /\ \A j \in (pos + 1)..i : input[j] \in Blank
    /\ i < Len(input) => input[i + 1] \notin Blank

\* A call is about to be made on a token that starts with a character of cs.
CallOn(cs) == tpc = "next" /\ CallStart < Len(input) /\ input[CallStart + 1] \in cs

\* The positions of the quotes after the one at CallStart + 1.
ClosingQuotes == {q \in (CallStart + 2)..Len(input) : input[q] = QUOTE}

FirstClosingQuote == CHOOSE q \in ClosingQuotes : \A r \in ClosingQuotes : q <= r

\* C11: a call on a quote returns String(the characters up to the next quote,
\* unchanged, a backslash like any other) and leaves the cursor after that
\* quote; with no later quote in the input the call panics and returns no
\* token.
C11_StringStep ==
  CallOn({QUOTE}) =>
    IF ClosingQuotes = {}
    THEN tpc' = "panic" /\ emitted' = emitted
    ELSE /\ tpc' = "next"
         /\ pos' = FirstClosingQuote
         /\ emitted' = Append(emitted,
                              JTokenString(SubSeq(input, CallStart + 2, FirstClosingQuote - 1)))

C11_StringVerbatim == [][C11_StringStep]_vars

\* The text "\"" : the quote after the backslash has ended a string of one
\* backslash, and the call on the last quote has panicked.
C11_Witness ==
  /\ src.kind = "text"
  /\ src.text = <<QUOTE, "\\", QUOTE, QUOTE>>
  /\ emitted = <<JTokenString(<<"\\">>)>>
  /\ tpc = "panic"

\* C12: spaces, tabs and newlines written where the calls of Tokenizer::next
\* start and at the end of a text change neither the tokens the calls return
\* nor how the calls end, and produce no token of their own: the calls on
\* the spaced text return what the calls on the text as given return.
C12_BlanksSkipped ==
  (src.kind = "text" /\ tpc \in {"eof", "panic"}) =>
    /\ emitted = Tokenize(src.text, 0, <<>>).tokens
    /\ tpc = Tokenize(src.text, 0, <<>>).end

\* The text true,{ written with a space, a tab and a newline before each
\* token and at the end: three tokens, then the end of the input.
C12_Witness ==
  /\ src.kind = "text"
  /\ src.text = <<"t", "r", "u", "e", ",", "{">>
  /\ src.gap = <<" ", "\t", "\n">>
  /\ Len(input) = Len(src.text) + 15
  /\ emitted = <<JTokenBool(TRUE), Comma, LeftBrace>>
  /\ tpc = "eof"

(***************************************************************************)
(* The phases of a number, read off the input                              *)
(***************************************************************************)
Signs == {"-", "+"}
NumberStart == Digit \cup Signs \cup {"."}

\* Where the longest run of signs and digits after the first i characters
\* ends, and where the longest run of digits does.
SignedRunEnd(i) ==
  CHOOSE e \in i..Len(input) :
    /\ \A j \in (i + 1)..e : input[j] \in Signs \/ IsNumeric(input[j])
    /\ e < Len(input) => ~(input[e + 1] \in Signs \/ IsNumeric(input[e + 1]))

DigitRunEnd(i) ==
  CHOOSE e \in i..Len(input) :
    /\ \A j \in (i + 1)..e : IsNumeric(input[j])
    /\ e < Len(input) => ~IsNumeric(input[e + 1])

\* The run of signs and digits after the first i characters holds a sign
\* that is not its first character.
SignAfterFirst(i) == \E j \in (i + 2)..SignedRunEnd(i) : input[j] \in Signs

IntPhaseEnd == SignedRunEnd(CallStart)

FracPhaseEnd ==
  IF IntPhaseEnd < Len(input) /\ input[IntPhaseEnd + 1] = "."
  THEN DigitRunEnd(IntPhaseEnd + 1)
  ELSE IntPhaseEnd

ExpPhaseEntered == FracPhaseEnd < Len(input) /\ input[FracPhaseEnd + 1] \in {"e", "E"}

IntSignMisplaced == SignAfterFirst(CallStart)

ExpSignMisplaced ==
  ~IntSignMisplaced /\ ExpPhaseEntered /\ SignAfterFirst(FracPhaseEnd + 1)

\* C13, as stated: a call on a digit, a sign or a dot returns a Number
\* token, whatever follows, and never panics.
C13_NumberStepAlways ==
  CallOn(NumberStart) =>
    /\ tpc' = "next"
    /\ Len(emitted') = Len(emitted) + 1
    /\ emitted'[Len(emitted')].t = "Number"

C13_NumberAlwaysScans == [][C13_NumberStepAlways]_vars

\* C13: a call on a digit, a sign or a dot returns a Number token, whatever
\* follows, unless a sign stands after the first character of the integer
\* phase or of the exponent phase: that is its only panic.
C13_NumberStep ==
  CallOn(NumberStart) =>
    IF tpc' = "panic"
    THEN (IntSignMisplaced \/ ExpSignMisplaced) /\ msg' = "invalid sign position."
    ELSE /\ tpc' = "next"
         /\ Len(emitted') = Len(emitted) + 1
         /\ SubSeq(emitted', 1, Len(emitted)) = emitted
         /\ emitted'[Len(emitted')].t = "Number"

C13_NumberScansButForSign == [][C13_NumberStep]_vars

\* The text of one dot: the Number of integer 0, no fraction, no exponent.
C13_Witness ==
  /\ src.kind = "text"
  /\ src.text = <<".">>
  /\ emitted = <<JTokenNumber(NumberNew(0, None, None))>>

\* C14: a call on a number in which a sign stands after the first character
\* of the integer phase or of the exponent phase panics and returns no token.
C14_SignStep ==
  (CallOn(NumberStart) /\ (IntSignMisplaced \/ ExpSignMisplaced)) =>
    /\ tpc' = "panic"
    /\ emitted' = emitted

C14_SignOnlyFirst == [][C14_SignStep]_vars

\* The text 1e1+ : the sign after a digit of the exponent has panicked.
C14_Witness ==
  /\ src.kind = "text"
  /\ src.text = <<"1", "e", "1", "+">>
  /\ tpc = "panic"
  /\ msg = "invalid sign position."
  /\ emitted = <<>>

\* The text the integer phase gathers for a literal does not parse as a
\* signed 32-bit integer: it has no digit, or its value is out of range.
IntegerUnparseable(l) == l.int = <<>> \/ ~FitsI32(l.sign, l.int)

\* C15: scanning a literal whose integer text is empty, only a sign, or out
\* of the range -2^31 .. 2^31-1 does not fail and yields a Number of
\* integer 0, neither wrapped nor clamped.
C15_UnparseableIntegerIsZero ==
  (lit.some /\ npc # "scan" /\ IntegerUnparseable(lit.v)) =>
    /\ number.some
    /\ number.v.int = 0

\* The literal -2147483649.5 was scanned as 0 and 0.5.
C15_Witness ==
  /\ npc = "render"
  /\ lit = Some(Literal(<<"-">>, <<"2", "1", "4", "7", "4", "8", "3", "6", "4", "9">>,
                        Some(<<"5">>), None))
  /\ number = Some(NumberNew(0, Some(F32OfFraction(<<"5">>)), None))

\* C16: a call of Tokenizer::next never moves the cursor back; a call that
\* returns a token has consumed at least one character; a call after the end
\* of the input was returned returns the end again and consumes nothing.
C16_CallStep ==
  /\ pos' >= pos
  /\ Len(emitted') > Len(emitted) => pos' > pos
  /\ tpc = "eof" => (tpc' = "eof" /\ pos' = pos /\ emitted' = emitted)

\* So there are at most as many tokens as characters, and the calls come to
\* the end of the input or to a panic.
C16_CallsProgress ==
  /\ [][C16_CallStep]_vars
  /\ [](Len(emitted) <= Len(input))
  /\ <>(tpc \in {"eof", "panic"})

\* The text {,true : three tokens from six characters, the end of the input,
\* and the end again at the next call.
C16_Witness ==
  /\ src.kind = "text"
  /\ src.text = <<"{", ",", "t", "r", "u", "e">>
  /\ src.gap = <<>>
  /\ emitted = <<LeftBrace, Comma, JTokenBool(TRUE)>>
  /\ pos = 6
  /\ tpc = "eof"
  /\ eofs = 2

(***************************************************************************)
(* What follows the closer of the document                                 *)
(***************************************************************************)
\* The text of the document of a trailed source, without the trailer.
Untrailed == Join(DocLexemes(src.doc), src.ws)

\* C17: on a document followed by further characters, parse returns once
\* the closer of the top-level opener is consumed: it does not panic, the
\* tree is the tree of the document alone, the cursor stands just after the
\* closer and no token beyond it was peeked, whatever the characters are.
C17_TrailerIgnored ==
  src.kind = "trailed" =>
    /\ pc # "panic"
    /\ pos <= Len(Untrailed)
    /\ pc = "done" =>
         /\ result = Some(LastWinsTree(src.doc))
         /\ result = Parse(Untrailed)
         /\ pos = Len(Untrailed)
         /\ peeked = None

\* The call on {"a":[1]}@ returned the tree of {"a":[1]}.
C17_Witness ==
  /\ src.kind = "trailed"
  /\ src.trailer = <<"@">>
  /\ pc = "done"
  /\ pos = 9
  /\ result = Some(JValueObject(<<[k |-> <<"a">>,
                                   v |-> JValueArray(<<JValueNumber(NumberNew(1, None, None))>>)]>>))

====
